---- MODULE Spec2Model ----
(***************************************************************************)
(* Personal Expense Tracker: the credential module (scripts/auth_utils.py), *)
(* the data-access object SupabaseDatabase (scripts/supabase_db.py) and the *)
(* login dialog (scripts/login_dialog.py), as state machines over a REST    *)
(* backend that holds the users, expenses and categories collections.       *)
(***************************************************************************)
EXTENDS Integers, Sequences, FiniteSets, TLC

VARIABLES
    cred,       \* credential module: the last hash_password / verify_password call
    http,       \* the last call of _make_request: method, response, value returned
    users,      \* backend: rows of the users collection, in insertion order
    expenses,   \* backend: rows of the expenses collection, in insertion order
    categories, \* backend: rows of the categories collection, in insertion order
    nextId,     \* backend: next primary key of the expenses collection
    last,       \* the last completed data-access operation: requests, results, return
    reg,        \* concurrent register_user calls: each client's position and locals
    dlg,        \* the login dialog: fields, current_user, message, credential file
    hist,       \* history: whether every add_expense / delete_expense call so far succeeded
    app,        \* the main window: its widgets and what its last handler did
    obf         \* credential obfuscation: the last encrypt / decrypt round trip

vars == <<cred, http, users, expenses, categories, nextId, last, reg, dlg, hist, app, obf>>

----------------------------------------------------------------------------
(* Bounds of the model. *)

MaxPwLen == 2
MaxUsers == 2
MaxExpenses == 2
MaxCategories == 1
MaxStartUps == 2

----------------------------------------------------------------------------
(* Python values. Every value carries its type in t, so that values of      *)
(* different types can be told apart: None, bool, list, dict, str, number,  *)
(* and Raise for an exception that left the evaluated block.                *)

None == [t |-> "None", v |-> 0]
PyBool(b) == [t |-> "bool", v |-> b]
PyTrue == PyBool(TRUE)
PyFalse == PyBool(FALSE)
PyList(s) == [t |-> "list", v |-> s]
PyDict(d) == [t |-> "dict", v |-> d]
PyStr(s) == [t |-> "str", v |-> s]
PyNum(n) == [t |-> "num", v |-> n]
Raise(e) == [t |-> "raise", v |-> e]

\* a == b on values of the same or of different types.
PyEq(a, b) == a.t = b.t /\ a.v = b.v

\* Python truth value testing (bool(x)), as used by "if x", "not x", "x if c else y".
Truthy(x) ==
    CASE x.t = "None" -> FALSE
      [] x.t = "bool" -> x.v
      [] x.t = "list" -> Len(x.v) > 0
      [] x.t = "dict" -> DOMAIN x.v # {}
      [] x.t = "str" -> x.v # ""
      [] x.t = "num" -> x.v # 0
      [] OTHER -> TRUE

\* try: body / except Exception: return sentinel
TryExcept(body, sentinel) == IF body.t = "raise" THEN sentinel ELSE body

RECURSIVE SumSeq(_)
SumSeq(s) == IF s = <<>> THEN 0 ELSE Head(s) + SumSeq(Tail(s))

----------------------------------------------------------------------------
(* scripts/auth_utils.py: hash_password, verify_password.                   *)

\* Characters a password is made of: NUL, "a" and a two-byte character.
Chars == {0, 97, 233}

\* Passwords are strings: sequences of code points.
Strings(n) == UNION {[1..k -> Chars] : k \in 0..n}

\* str.encode('utf-8') on code points below U+0800.
Utf8Char(c) == IF c < 128 THEN <<c>> ELSE <<192 + (c \div 64), 128 + (c % 64)>>

RECURSIVE Utf8(_)
Utf8(s) == IF s = <<>> THEN <<>> ELSE Utf8Char(Head(s)) \o Utf8(Tail(s))

\* The block size in bytes of the digest named 'sha256'.
BlockSize == 64
\* The iteration count both functions pass.
Iterations == 100000

\* A byte string without its trailing zero bytes.
RECURSIVE StripZeros(_)
StripZeros(key) ==
    IF key # <<>> /\ key[Len(key)] = 0 THEN StripZeros(SubSeq(key, 1, Len(key) - 1))
    ELSE key

\* HMAC's key preparation (RFC 2104): a key longer than the block is replaced
\* by its digest, a shorter one is padded with zero bytes to the block size.
\* The padded block is written without its trailing zeros (two keys give the
\* same block exactly when they differ in trailing zero bytes only); the digest
\* is kept symbolic (collision-free).
HmacKey(key) ==
    IF Len(key) > BlockSize
    THEN [digest |-> key]
    ELSE [block |-> StripZeros(key)]

\* hashlib.pbkdf2_hmac(name, password, salt, iterations): the derived key, kept
\* symbolic: a collision-free function of the prepared HMAC key, the salt and the
\* iteration count.
pbkdf2_hmac(name, password, salt, iterations) ==
    [prf |-> name, key |-> HmacKey(password), salt |-> salt, c |-> iterations]

\* bytes.hex()
Hex(d) == [hex |-> d]

\* secrets.token_hex: the hex strings the salt is drawn from ("0a", "f3").
Salts == {<<48, 97>>, <<102, 51>>}

\* hash_password(password), with the salt secrets.token_hex produced.
hash_password(password, salt) ==
    [hash |-> Hex(pbkdf2_hmac("sha256", Utf8(password), Utf8(salt), Iterations)),
     salt |-> salt]

verify_password(stored_hash, stored_salt, provided_password) ==
    Hex(pbkdf2_hmac("sha256", Utf8(provided_password), Utf8(stored_salt), Iterations))
        = stored_hash

CredIdle == [pc |-> "idle", password |-> <<>>, hash |-> Hex(0), salt |-> <<>>,
             candidate |-> <<>>, verified |-> FALSE]

\* A caller hashes a password.
HashPassword(p, s) ==
    /\ cred' = [CredIdle EXCEPT !.pc = "hashed", !.password = p,
                                !.hash = hash_password(p, s).hash,
                                !.salt = hash_password(p, s).salt]
    /\ UNCHANGED <<http, users, expenses, categories, nextId, last, reg, dlg, hist, app, obf>>

\* A caller verifies a candidate password against the stored pair.
VerifyPassword(c) ==
    /\ cred.pc \in {"hashed", "verified"}
    /\ cred' = [cred EXCEPT !.pc = "verified", !.candidate = c,
                            !.verified = verify_password(cred.hash, cred.salt, c)]
    /\ UNCHANGED <<http, users, expenses, categories, nextId, last, reg, dlg, hist, app, obf>>

----------------------------------------------------------------------------
(* scripts/supabase_db.py: SupabaseDatabase._make_request.                  *)

Methods == {"GET", "POST", "PATCH", "DELETE", "PUT"}
StatusCodes == {200, 201, 204, 400, 404, 500}

\* An HTTP response: a status code and a body that is empty, JSON text (with the
\* value it parses to) or text that is not JSON.
Response(status, kind, json) == [status |-> status, kind |-> kind, json |-> json]

\* A transport-level failure: requests raises instead of returning a response.
TransportError == [status |-> 0, kind |-> "exception", json |-> None]

\* Mutant of make_request_body: every 2xx status counts as success.
make_request_body_any_2xx(method, response) ==
    IF method \notin {"GET", "POST", "PATCH", "DELETE"} THEN None
    ELSE IF response.kind = "exception" THEN Raise("RequestException")
    ELSE IF response.status \in 200..299
         THEN IF response.kind = "empty" THEN PyTrue
              ELSE IF response.kind = "json" THEN response.json
              ELSE PyTrue
         ELSE None

\* The try block of _make_request, for the response the backend gave.
make_request_body(method, response) ==
    IF method \notin {"GET", "POST", "PATCH", "DELETE"} THEN None
    ELSE IF response.kind = "exception" THEN Raise("RequestException")
    ELSE IF response.status \in {200, 201}
         THEN IF response.kind = "empty" THEN PyTrue
              ELSE IF response.kind = "json" THEN response.json
              ELSE PyTrue
         ELSE None

make_request(method, response) == TryExcept(make_request_body(method, response), None)

\* The bodies a response may carry as JSON: lists of rows, an object, null.
JsonValues == {PyList(<<>>), PyList(<<[id |-> 1]>>), PyDict([message |-> "m"]), None}

Responses ==
    {Response(st, "empty", None) : st \in StatusCodes}
    \cup {Response(st, "text", None) : st \in StatusCodes}
    \cup {Response(st, "json", j) : st \in StatusCodes, j \in JsonValues}
    \cup {TransportError}

HttpIdle == [method |-> "none", response |-> TransportError, value |-> None]

\* One call of _make_request, answered with response.
MakeRequest(method, response) ==
    /\ http' = [method |-> method, response |-> response,
                value |-> make_request(method, response)]
    /\ UNCHANGED <<cred, users, expenses, categories, nextId, last, reg, dlg, hist, app, obf>>


----------------------------------------------------------------------------
(* The REST backend: three collections answered over HTTP. A filter is a    *)
(* sequence of column conditions (column=op.value), an optional order by    *)
(* date descending and an optional limit.                                   *)

Cond(col, op, val) == [col |-> col, op |-> op, val |-> val]

Request(method, table, conds, order, limit, data) ==
    [method |-> method, table |-> table, conds |-> conds, order |-> order,
     limit |-> limit, data |-> data]

\* What a request leaves in the log of an operation.
Logged(req) ==
    [method |-> req.method, table |-> req.table, conds |-> req.conds, data |-> req.data]

Matches(row, conds) ==
    \A i \in 1..Len(conds) :
        LET c == conds[i] IN
        CASE c.op = "eq" -> row[c.col] = c.val
          [] c.op = "gte" -> row[c.col] >= c.val
          [] c.op = "lte" -> row[c.col] <= c.val

\* order=date.desc: rows by date, latest first; rows of one date keep their
\* stored order.
RECURSIVE InsertByDate(_, _)
InsertByDate(row, sorted) ==
    IF sorted = <<>> THEN <<row>>
    ELSE IF Head(sorted).date >= row.date
         THEN <<Head(sorted)>> \o InsertByDate(row, Tail(sorted))
         ELSE <<row>> \o sorted

RECURSIVE OrderByDateDesc(_)
OrderByDateDesc(rows) ==
    IF rows = <<>> THEN <<>>
    ELSE InsertByDate(rows[Len(rows)], OrderByDateDesc(SubSeq(rows, 1, Len(rows) - 1)))

Limit(rows, n) == IF n > 0 /\ Len(rows) > n THEN SubSeq(rows, 1, n) ELSE rows

TableRows(table) ==
    CASE table = "users" -> users
      [] table = "expenses" -> expenses
      [] table = "categories" -> categories

\* The rows of a collection a request's filter selects, ordered and limited as
\* it asks.
SelectedFrom(rows, req) ==
    LET hit == SelectSeq(rows, LAMBDA r : Matches(r, req.conds))
    IN Limit(IF req.order THEN OrderByDateDesc(hit) ELSE hit, req.limit)

Selected(req) == SelectedFrom(TableRows(req.table), req)

\* The row a POST stores: the body plus the columns the backend fills in.
Inserted(req) ==
    CASE req.table = "users" ->
            [id |-> Len(users) + 1, username |-> req.data.username,
             password_hash |-> req.data.password_hash,
             password_salt |-> req.data.password_salt, currency |-> "USD"]
      [] req.table = "expenses" ->
            [id |-> nextId, user_id |-> req.data.user_id, amount |-> req.data.amount,
             category |-> req.data.category, description |-> req.data.description,
             date |-> req.data.date, transaction_id |-> req.data.transaction_id]
      [] req.table = "categories" ->
            [id |-> Len(categories) + 1, user_id |-> req.data.user_id,
             name |-> req.data.name]

\* The row a PATCH leaves: the columns of the body overwritten.
Patched(row, data) ==
    [col \in DOMAIN row |-> IF col \in DOMAIN data THEN data[col] ELSE row[col]]

\* How the backend may answer a request:
\*   ok          200/201 with the JSON list of the rows selected or written
\*   ok_empty    200/201 with an empty body
\*   ok_object   200/201 with a JSON object as body
\*   no_content  204 (the request was carried out)
\*   error       500 with a JSON error object (nothing was carried out)
\*   exception   no response: the transport raised (nothing was carried out)
Outcomes == {"ok", "ok_empty", "ok_object", "no_content", "error", "exception"}
Applied == {"ok", "ok_empty", "ok_object", "no_content"}

OkStatus(req) == IF req.method = "POST" THEN 201 ELSE 200

\* The answer to a request over the collection holding rows.
RespondFrom(rows, req, o) ==
    CASE o = "ok" ->
            Response(OkStatus(req), "json",
                     PyList(IF req.method = "POST" THEN <<Inserted(req)>>
                            ELSE SelectedFrom(rows, req)))
      [] o = "ok_empty" -> Response(OkStatus(req), "empty", None)
      [] o = "ok_object" -> Response(OkStatus(req), "json", PyDict([message |-> "ok"]))
      [] o = "no_content" -> Response(204, "empty", None)
      [] o = "error" -> Response(500, "json", PyDict([message |-> "error"]))
      [] o = "exception" -> TransportError

Respond(req, o) == RespondFrom(TableRows(req.table), req, o)

\* The collection after the request, when the backend carried it out.
Written(req, rows) ==
    CASE req.method = "POST" -> Append(rows, Inserted(req))
      [] req.method = "PATCH" ->
            [i \in 1..Len(rows) |->
                IF Matches(rows[i], req.conds) THEN Patched(rows[i], req.data) ELSE rows[i]]
      [] req.method = "DELETE" -> SelectSeq(rows, LAMBDA r : ~Matches(r, req.conds))
      [] OTHER -> rows

After(table, req, o) ==
    IF req.table = table /\ o \in Applied THEN Written(req, TableRows(table))
    ELSE TableRows(table)

\* The backend's state after answering req with outcome o.
Commit(req, o) ==
    /\ users' = After("users", req, o)
    /\ expenses' = After("expenses", req, o)
    /\ categories' = After("categories", req, o)
    /\ nextId' = IF req.table = "expenses" /\ req.method = "POST" /\ o \in Applied
                 THEN nextId + 1 ELSE nextId

\* Room left in the collection a request would add a row to.
HasRoom(req) ==
    \/ req.method # "POST"
    \/ req.table = "users" /\ Len(users) < MaxUsers
    \/ req.table = "expenses" /\ Len(expenses) < MaxExpenses /\ nextId <= MaxExpenses + 1
    \/ req.table = "categories" /\ Len(categories) < MaxCategories

\* _make_request(method, table, filters, data) against the backend.
Result(req, o) == make_request(req.method, Respond(req, o))

\* The same for a request that follows a write within one handler: rows is the
\* collection as the write left it.
ResultFrom(rows, req, o) == make_request(req.method, RespondFrom(rows, req, o))


----------------------------------------------------------------------------
(* Strings of the expense form (description, transaction id, search query)  *)
(* are sequences of code points; dates are proleptic Gregorian ordinals     *)
(* (datetime.date.toordinal), day 1 being Monday 0001-01-01.                *)

\* str.lower() on the letters A-Z.
Lower(s) == [i \in 1..Len(s) |-> IF s[i] \in 65..90 THEN s[i] + 32 ELSE s[i]]

\* needle in hay
Contains(hay, needle) ==
    \E k \in 0..(Len(hay) - Len(needle)) : SubSeq(hay, k + 1, k + Len(needle)) = needle

IsLeap(y) == (y % 4 = 0) /\ ((y % 100 # 0) \/ (y % 400 = 0))

DaysInMonth(y, m) ==
    IF m = 2 THEN (IF IsLeap(y) THEN 29 ELSE 28)
    ELSE IF m \in {4, 6, 9, 11} THEN 30 ELSE 31

RECURSIVE DaysBeforeMonth(_, _)
DaysBeforeMonth(y, m) ==
    IF m = 1 THEN 0 ELSE DaysBeforeMonth(y, m - 1) + DaysInMonth(y, m - 1)

Ordinal(y, m, d) ==
    365 * (y - 1) + ((y - 1) \div 4) - ((y - 1) \div 100) + ((y - 1) \div 400)
        + DaysBeforeMonth(y, m) + d

\* date.max.toordinal(): 9999-12-31.
MaxOrdinal == Ordinal(9999, 12, 31)

\* datetime.date(y, m, d): ValueError outside the calendar.
date(y, m, d) ==
    IF y \in 1..9999 /\ m \in 1..12 /\ d \in 1..DaysInMonth(y, m)
    THEN PyNum(Ordinal(y, m, d))
    ELSE Raise("ValueError")

\* date +/- timedelta(days): OverflowError outside the calendar.
PlusDays(dt, n) ==
    IF dt.t = "raise" THEN dt
    ELSE IF dt.v + n \in 1..MaxOrdinal THEN PyNum(dt.v + n)
    ELSE Raise("OverflowError")

\* date.weekday(): Monday is 0.
weekday(ordinal) == (ordinal - 1) % 7

----------------------------------------------------------------------------
(* scripts/supabase_db.py: the domain operations of SupabaseDatabase.       *)

NoOrder == FALSE
DateDesc == TRUE
NoLimit == 0
NoData == <<>>

LastIdle == [op |-> "none", args |-> <<>>, reqs |-> <<>>, results |-> <<>>, ret |-> None]

\* The record of an operation that issued one request.
OpRecord(op, args, req, result, ret) ==
    [op |-> op, args |-> args, reqs |-> <<Logged(req)>>, results |-> <<result>>,
     ret |-> ret]

\* An operation that issued one request, answered with outcome o.
DoCall(op, args, req, o, ret) ==
    /\ HasRoom(req)
    /\ Commit(req, o)
    /\ last' = OpRecord(op, args, req, Result(req, o), ret)
    /\ hist' = IF op \in {"add_expense", "delete_expense"}
               THEN [hist EXCEPT !.allOk = hist.allOk /\ PyEq(ret, PyTrue)]
               ELSE hist
    /\ UNCHANGED <<cred, http, reg, obf>>

\* The same, called from outside the login dialog.
Do(op, args, req, o, ret) == DoCall(op, args, req, o, ret) /\ UNCHANGED <<dlg, app>>

\* An operation that returned before issuing any request.
DoLocal(op, args, ret) ==
    /\ last' = [op |-> op, args |-> args, reqs |-> <<>>, results |-> <<>>, ret |-> ret]
    /\ UNCHANGED <<cred, http, users, expenses, categories, nextId, reg, dlg, hist, app, obf>>

(* register_user *)

register_check_request(username) ==
    Request("GET", "users", <<Cond("username", "eq", username)>>, NoOrder, NoLimit, NoData)

\* Mutant of register_exists: a single existing row does not count.
register_exists_more_than_one(existing) == existing.t = "list" /\ Len(existing.v) > 1

\* isinstance(existing, list) and len(existing) > 0
register_exists(existing) == existing.t = "list" /\ Len(existing.v) > 0

register_insert_request(username, password, salt) ==
    Request("POST", "users", <<>>, NoOrder, NoLimit,
            [username |-> username,
             password_hash |-> hash_password(password, salt).hash,
             password_salt |-> hash_password(password, salt).salt])

\* result is True or (isinstance(result, list) and len(result) > 0)
register_inserted(result) ==
    \/ result.t = "bool" /\ result.v
    \/ result.t = "list" /\ Len(result.v) > 0

\* Mutant of register_return: only the bare True counts as inserted.
register_return_true_only(result) ==
    IF result.t = "bool" /\ result.v THEN PyTrue ELSE PyFalse

register_return(result) ==
    TryExcept(IF register_inserted(result) THEN PyTrue ELSE PyFalse, PyFalse)

\* What register_user returns: False when the existence check found a row,
\* else whether the insert was answered with a row or True.
register_user(existing, result) ==
    IF register_exists(existing) THEN PyFalse ELSE register_return(result)

\* register_user(username, password) by a client that runs alone: the existence
\* check answered with o1, then (unless a row was found) the insert answered
\* with o2.
RegisterUserCall(username, password, salt, o1, o2) ==
    LET check == register_check_request(username)
        existing == Result(check, o1)
        insert == register_insert_request(username, password, salt)
        result == Result(insert, o2)
    IN  IF register_exists(existing)
        THEN /\ last' = [op |-> "register_user", args |-> <<username, password>>, reqs |-> <<Logged(check)>>,
                         results |-> <<existing>>, ret |-> PyFalse]
             /\ UNCHANGED <<cred, http, users, expenses, categories, nextId, reg, hist, app, obf>>
        ELSE /\ HasRoom(insert)
             /\ Commit(insert, o2)
             /\ last' = [op |-> "register_user", args |-> <<username, password>>, reqs |-> <<Logged(check), Logged(insert)>>,
                         results |-> <<existing, result>>, ret |-> register_return(result)]
             /\ UNCHANGED <<cred, http, reg, hist, app, obf>>

\* The same, called from outside the login dialog.
RegisterUser(username, password, salt, o1, o2) ==
    RegisterUserCall(username, password, salt, o1, o2) /\ UNCHANGED dlg

(* login_user *)

login_request(username) ==
    Request("GET", "users", <<Cond("username", "eq", username)>>, NoOrder, NoLimit, NoData)

\* len(x): TypeError for a value without a length.
PyLen(x) ==
    CASE x.t = "list" -> PyNum(Len(x.v))
      [] x.t = "dict" -> PyNum(Cardinality(DOMAIN x.v))
      [] OTHER -> Raise("TypeError")

\* x[0]: the first element of a list; KeyError on a dict without the key 0,
\* TypeError on a value that cannot be indexed.
PyFirst(x) ==
    CASE x.t = "list" -> (IF Len(x.v) > 0 THEN PyDict(x.v[1]) ELSE Raise("IndexError"))
      [] x.t = "dict" -> Raise("KeyError")
      [] OTHER -> Raise("TypeError")

\* Mutant of login_user_body: the first row is returned without verification.
login_user_body_unverified(result, password) ==
    IF ~Truthy(result) THEN None
    ELSE IF PyLen(result).t = "raise" THEN PyLen(result)
    ELSE IF PyLen(result).v = 0 THEN None
    ELSE PyFirst(result)

\* Mutant of login_user_body: a missing user is reported as such.
login_user_body_no_such_user(result, password) ==
    IF result.t = "list" /\ Len(result.v) = 0 THEN PyStr("no such user")
    ELSE IF ~Truthy(result) THEN None
    ELSE IF PyLen(result).t = "raise" THEN PyLen(result)
    ELSE IF PyFirst(result).t = "raise" THEN PyFirst(result)
    ELSE IF verify_password(PyFirst(result).v.password_hash,
                            PyFirst(result).v.password_salt, password)
         THEN PyFirst(result) ELSE None

\* Mutant of login_user_body: the password is tried against every row returned.
login_user_body_any_row(result, password) ==
    IF ~Truthy(result) THEN None
    ELSE IF PyLen(result).t = "raise" THEN PyLen(result)
    ELSE IF PyLen(result).v = 0 THEN None
    ELSE IF PyFirst(result).t = "raise" THEN PyFirst(result)
    ELSE LET hits == SelectSeq(result.v, LAMBDA u :
                        verify_password(u.password_hash, u.password_salt, password))
         IN  IF hits # <<>> THEN PyDict(hits[1]) ELSE None

login_user_body(result, password) ==
    IF ~Truthy(result) THEN None
    ELSE IF PyLen(result).t = "raise" THEN PyLen(result)
    ELSE IF PyLen(result).v = 0 THEN None
    ELSE IF PyFirst(result).t = "raise" THEN PyFirst(result)
    ELSE LET user == PyFirst(result) IN
         IF verify_password(user.v.password_hash, user.v.password_salt, password)
         THEN user ELSE None

\* Mutant of login_user: the body without its try/except.
login_user_unguarded(result, password) == login_user_body(result, password)

login_user(result, password) == TryExcept(login_user_body(result, password), None)

LoginUser(username, password, o) ==
    LET req == login_request(username)
    IN Do("login_user", <<username, password>>, req, o, login_user(Result(req, o), password))


(* add_expense, update_expense, delete_expense *)

add_expense_request(user_id, amount, category, description, date_str, transaction_id) ==
    Request("POST", "expenses", <<>>, NoOrder, NoLimit,
            [user_id |-> user_id, amount |-> amount, category |-> category,
             description |-> description, date |-> date_str,
             transaction_id |-> transaction_id])

\* return result is not None
add_expense(result) == TryExcept(PyBool(result.t # "None"), PyFalse)

AddExpense(user_id, amount, category, description, date_str, transaction_id, o) ==
    LET req == add_expense_request(user_id, amount, category, description, date_str,
                                   transaction_id)
    IN Do("add_expense", <<user_id, amount, category, description, date_str, transaction_id>>, req, o, add_expense(Result(req, o)))

update_expense_request(expense_id, kwargs) ==
    Request("PATCH", "expenses", <<Cond("id", "eq", expense_id)>>, NoOrder, NoLimit, kwargs)

update_expense(result) == TryExcept(PyBool(result.t # "None"), PyFalse)

UpdateExpense(expense_id, kwargs, o) ==
    LET req == update_expense_request(expense_id, kwargs)
    IN Do("update_expense", <<expense_id, kwargs>>, req, o, update_expense(Result(req, o)))

delete_expense_request(expense_id) ==
    Request("DELETE", "expenses", <<Cond("id", "eq", expense_id)>>, NoOrder, NoLimit, NoData)

delete_expense(result) == TryExcept(PyBool(result.t # "None"), PyFalse)

DeleteExpense(expense_id, o) ==
    LET req == delete_expense_request(expense_id)
    IN Do("delete_expense", <<expense_id>>, req, o, delete_expense(Result(req, o)))

(* the list queries *)

get_expenses_request(user_id, limit) ==
    Request("GET", "expenses", <<Cond("user_id", "eq", user_id)>>, DateDesc, limit, NoData)

\* return result if result else []
get_expenses(result) ==
    TryExcept(IF Truthy(result) THEN result ELSE PyList(<<>>), PyList(<<>>))

GetExpenses(user_id, limit, o) ==
    LET req == get_expenses_request(user_id, limit)
    IN Do("get_expenses", <<user_id, limit>>, req, o, get_expenses(Result(req, o)))

\* Mutant of get_recent_expenses_request: the rows of every user are asked for.
get_recent_expenses_request_all_users(user_id, limit) ==
    Request("GET", "expenses", <<>>, DateDesc, limit, NoData)

\* order=date.desc,time.desc: the time of day is not part of the modelled row.
get_recent_expenses_request(user_id, limit) ==
    Request("GET", "expenses", <<Cond("user_id", "eq", user_id)>>, DateDesc, limit, NoData)

get_recent_expenses(result) ==
    TryExcept(IF Truthy(result) THEN result ELSE PyList(<<>>), PyList(<<>>))

GetRecentExpenses(user_id, limit, o) ==
    LET req == get_recent_expenses_request(user_id, limit)
    IN Do("get_recent_expenses", <<user_id, limit>>, req, o, get_recent_expenses(Result(req, o)))

\* Mutant of get_expenses_by_date_range_request: the upper bound is left out.
get_expenses_by_date_range_request_no_upper(user_id, start_date, end_date) ==
    Request("GET", "expenses",
            <<Cond("user_id", "eq", user_id), Cond("date", "gte", start_date)>>,
            DateDesc, NoLimit, NoData)

get_expenses_by_date_range_request(user_id, start_date, end_date) ==
    Request("GET", "expenses",
            <<Cond("user_id", "eq", user_id), Cond("date", "gte", start_date),
              Cond("date", "lte", end_date)>>,
            DateDesc, NoLimit, NoData)

get_expenses_by_date_range(result) ==
    TryExcept(IF Truthy(result) THEN result ELSE PyList(<<>>), PyList(<<>>))

GetExpensesByDateRange(user_id, start_date, end_date, o) ==
    LET req == get_expenses_by_date_range_request(user_id, start_date, end_date)
    IN Do("get_expenses_by_date_range", <<user_id, start_date, end_date>>, req, o, get_expenses_by_date_range(Result(req, o)))

get_expenses_by_category_request(user_id, category) ==
    Request("GET", "expenses",
            <<Cond("user_id", "eq", user_id), Cond("category", "eq", category)>>,
            DateDesc, NoLimit, NoData)

get_expenses_by_category(result) ==
    TryExcept(IF Truthy(result) THEN result ELSE PyList(<<>>), PyList(<<>>))

GetExpensesByCategory(user_id, category, o) ==
    LET req == get_expenses_by_category_request(user_id, category)
    IN Do("get_expenses_by_category", <<user_id, category>>, req, o, get_expenses_by_category(Result(req, o)))

\* max_amount = float('inf'): every amount is below it (the backend reads the
\* filter value inf as infinity).
Infinity == 999999999

search_expenses_request(user_id, category, min_amount, max_amount) ==
    Request("GET", "expenses",
            <<Cond("user_id", "eq", user_id), Cond("amount", "gte", min_amount),
              Cond("amount", "lte", max_amount)>>
            \o (IF category # "" THEN <<Cond("category", "eq", category)>> ELSE <<>>),
            DateDesc, NoLimit, NoData)

\* Mutant of search_filter: the transaction id is not looked at.
search_filter_description_only(result, query) ==
    IF result.t = "list"
    THEN PyList(SelectSeq(result.v, LAMBDA e : Contains(Lower(e.description), Lower(query))))
    ELSE IF result.t = "dict" THEN Raise("AttributeError")
    ELSE Raise("TypeError")

\* The list comprehension over result: iterating a value that is no list of rows
\* raises (TypeError for a bool, AttributeError for the keys of a dict).
search_filter(result, query) ==
    IF result.t = "list"
    THEN PyList(SelectSeq(result.v,
                LAMBDA e : \/ Contains(Lower(e.description), Lower(query))
                           \/ Contains(Lower(e.transaction_id), Lower(query))))
    ELSE IF result.t = "dict" THEN Raise("AttributeError")
    ELSE Raise("TypeError")

search_expenses_body(result, query) ==
    LET filtered == IF query # <<>> /\ Truthy(result) THEN search_filter(result, query)
                    ELSE result
    IN  IF filtered.t = "raise" THEN filtered
        ELSE IF Truthy(filtered) THEN filtered ELSE PyList(<<>>)

search_expenses(result, query) == TryExcept(search_expenses_body(result, query), PyList(<<>>))

SearchExpenses(user_id, query, category, min_amount, max_amount, o) ==
    LET req == search_expenses_request(user_id, category, min_amount, max_amount)
    IN Do("search_expenses", <<user_id, query, category, min_amount, max_amount>>, req, o, search_expenses(Result(req, o), query))

(* the totals *)

\* sum(e["amount"] for e in expenses): TypeError when expenses is no list of rows.
SumAmounts(exps) ==
    IF exps.t = "list" THEN PyNum(SumSeq([i \in 1..Len(exps.v) |-> exps.v[i].amount]))
    ELSE Raise("TypeError")

\* Mutant of get_daily_total: the rows are counted, not their amounts summed.
get_daily_total_count(exps) ==
    IF exps.t = "list" THEN PyNum(Len(exps.v)) ELSE PyNum(0)

get_daily_total(exps) == TryExcept(SumAmounts(exps), PyNum(0))

GetDailyTotal(user_id, target_date, o) ==
    LET req == get_expenses_by_date_range_request(user_id, target_date, target_date)
    IN Do("get_daily_total", <<user_id, target_date>>, req, o,
          get_daily_total(get_expenses_by_date_range(Result(req, o))))

\* The start and end date of a total's range, or the exception raised computing it.
Range(s, e) == IF s.t = "raise" THEN s ELSE IF e.t = "raise" THEN e
               ELSE [t |-> "range", start |-> s.v, end |-> e.v]

weekly_range(target_date) ==
    LET start_date == PlusDays(PyNum(target_date), 0 - weekday(target_date))
        end_date == PlusDays(start_date, 6)
    IN Range(start_date, end_date)

monthly_range(year, month) ==
    LET start_date == date(year, month, 1)
        end_date == IF month = 12 THEN PlusDays(date(year + 1, 1, 1), -1)
                    ELSE PlusDays(date(year, month + 1, 1), -1)
    IN Range(start_date, end_date)

yearly_range(year) == Range(date(year, 1, 1), date(year, 12, 31))

\* A total over a range: the range query and the sum, all inside one try block.
RangeTotal(op, args, user_id, range, o) ==
    IF range.t = "raise" THEN DoLocal(op, args, PyNum(0))
    ELSE LET req == get_expenses_by_date_range_request(user_id, range.start, range.end)
         IN Do(op, args, req, o, TryExcept(SumAmounts(get_expenses_by_date_range(Result(req, o))),
                                     PyNum(0)))

GetWeeklyTotal(user_id, target_date, o) ==
    RangeTotal("get_weekly_total", <<user_id, target_date>>, user_id, weekly_range(target_date), o)

GetMonthlyTotal(user_id, year, month, o) ==
    RangeTotal("get_monthly_total", <<user_id, year, month>>, user_id, monthly_range(year, month), o)

GetYearlyTotal(user_id, year, o) ==
    RangeTotal("get_yearly_total", <<user_id, year>>, user_id, yearly_range(year), o)

\* category_totals: category -> sum of the amounts of its rows.
category_totals(exps) ==
    IF exps.t = "list"
    THEN PyDict([c \in {exps.v[i].category : i \in 1..Len(exps.v)} |->
                    SumSeq([i \in 1..Len(exps.v) |->
                                IF exps.v[i].category = c THEN exps.v[i].amount ELSE 0])])
    ELSE Raise("TypeError")

get_expenses_by_category_for_period(exps) == TryExcept(category_totals(exps), PyDict(<<>>))

GetExpensesByCategoryForPeriod(user_id, start_date, end_date, o) ==
    LET req == get_expenses_by_date_range_request(user_id, start_date, end_date)
    IN Do("get_expenses_by_category_for_period", <<user_id, start_date, end_date>>, req, o,
          get_expenses_by_category_for_period(get_expenses_by_date_range(Result(req, o))))

(* categories and the user row *)

get_categories_request(user_id) ==
    Request("GET", "categories", <<Cond("user_id", "eq", user_id)>>, NoOrder, NoLimit, NoData)

\* [cat["name"] for cat in result] if result else []
get_categories_body(result) ==
    IF ~Truthy(result) THEN PyList(<<>>)
    ELSE IF result.t = "list" THEN PyList([i \in 1..Len(result.v) |-> result.v[i].name])
    ELSE Raise("TypeError")

get_categories(result) == TryExcept(get_categories_body(result), PyList(<<>>))

GetCategories(user_id, o) ==
    LET req == get_categories_request(user_id)
    IN Do("get_categories", <<user_id>>, req, o, get_categories(Result(req, o)))

add_category_request(user_id, name) ==
    Request("POST", "categories", <<>>, NoOrder, NoLimit, [user_id |-> user_id, name |-> name])

add_category(result) == TryExcept(PyBool(result.t # "None"), PyFalse)

AddCategory(user_id, name, o) ==
    LET req == add_category_request(user_id, name)
    IN Do("add_category", <<user_id, name>>, req, o, add_category(Result(req, o)))

get_user_by_id_request(user_id) ==
    Request("GET", "users", <<Cond("id", "eq", user_id)>>, NoOrder, NoLimit, NoData)

\* result[0] if result else None
get_user_by_id(result) ==
    TryExcept(IF Truthy(result) THEN PyFirst(result) ELSE None, None)

GetUserById(user_id, o) ==
    LET req == get_user_by_id_request(user_id)
    IN Do("get_user_by_id", <<user_id>>, req, o, get_user_by_id(Result(req, o)))

\* Mutant of set_user_currency: the answer to the PATCH is not looked at.
set_user_currency_unchecked(result) == PyTrue

\* Mutant of set_user_currency_request: the PATCH goes to the expenses collection.
set_user_currency_request_on_expenses(user_id, currency) ==
    Request("PATCH", "expenses", <<Cond("id", "eq", user_id)>>, NoOrder, NoLimit,
            [currency |-> currency])

set_user_currency_request(user_id, currency) ==
    Request("PATCH", "users", <<Cond("id", "eq", user_id)>>, NoOrder, NoLimit,
            [currency |-> currency])

set_user_currency(result) == TryExcept(PyBool(result.t # "None"), PyFalse)

SetUserCurrency(user_id, currency, o) ==
    LET req == set_user_currency_request(user_id, currency)
    IN Do("set_user_currency", <<user_id, currency>>, req, o, set_user_currency(Result(req, o)))

\* The marker of a JSON null in a column of a row.
Null == "null"

\* dict.get(key, default): the default stands in for a missing key only; a key
\* that is present with the value null yields None.
dict_get(row, key, default) ==
    IF key \in DOMAIN row
    THEN IF row[key] = Null THEN None ELSE PyStr(row[key])
    ELSE default

\* user.get("currency", "USD") if user else "USD"
get_user_currency(user) ==
    TryExcept(IF Truthy(user) THEN dict_get(user.v, "currency", PyStr("USD")) ELSE PyStr("USD"),
              PyStr("USD"))

GetUserCurrency(user_id, o) ==
    LET req == get_user_by_id_request(user_id)
    IN Do("get_user_currency", <<user_id>>, req, o, get_user_currency(get_user_by_id(Result(req, o))))


----------------------------------------------------------------------------
(* register_user run by two clients at once: each request is one step.      *)

Clients == {"c1", "c2"}

RegIdle == [pc |-> "idle", username |-> <<>>, password |-> <<>>, existing |-> None,
            outcome |-> "none", ret |-> None]

\* Lines 80-86: the existence check, answered with outcome o.
RegCheck(c, username, password, o) ==
    LET existing == Result(register_check_request(username), o)
    IN  /\ reg[c].pc \in {"idle", "done"}
        /\ reg' = [reg EXCEPT ![c] =
                    [pc |-> IF register_exists(existing) THEN "done" ELSE "insert",
                     username |-> username, password |-> password, existing |-> existing,
                     outcome |-> "none",
                     ret |-> IF register_exists(existing) THEN PyFalse ELSE None]]
        /\ UNCHANGED <<cred, http, users, expenses, categories, nextId, last, dlg, hist, app, obf>>

\* Lines 91-111: the insert, answered with outcome o.
RegInsert(c, salt, o) ==
    LET insert == register_insert_request(reg[c].username, reg[c].password, salt)
    IN  /\ reg[c].pc = "insert"
        /\ HasRoom(insert)
        /\ Commit(insert, o)
        /\ reg' = [reg EXCEPT ![c].pc = "done", ![c].outcome = o,
                              ![c].ret = register_return(Result(insert, o))]
        /\ UNCHANGED <<cred, http, last, dlg, hist, app, obf>>


----------------------------------------------------------------------------
(* scripts/login_dialog.py: LoginDialog.handle_login, with save_credentials *)
(* of scripts/auth_utils.py.                                                *)

\* str.strip(): leading and trailing blanks removed.
RECURSIVE LStrip(_)
LStrip(s) == IF s # <<>> /\ Head(s) = 32 THEN LStrip(Tail(s)) ELSE s

RECURSIVE RStrip(_)
RStrip(s) == IF s # <<>> /\ s[Len(s)] = 32 THEN RStrip(SubSeq(s, 1, Len(s) - 1)) ELSE s

Strip(s) == RStrip(LStrip(s))

\* The character of the base64 alphabet for a six-bit value: A-Z, a-z, 0-9, +, /.
B64Char(v) ==
    IF v < 26 THEN 65 + v
    ELSE IF v < 52 THEN 97 + (v - 26)
    ELSE IF v < 62 THEN 48 + (v - 52)
    ELSE IF v = 62 THEN 43 ELSE 47

\* The six-bit value of a character of the alphabet, -1 for any other character.
B64Value(c) ==
    IF c \in 65..90 THEN c - 65
    ELSE IF c \in 97..122 THEN c - 71
    ELSE IF c \in 48..57 THEN c + 4
    ELSE IF c = 43 THEN 62
    ELSE IF c = 47 THEN 63 ELSE -1

\* base64.b64encode: three bytes to four characters, the end padded with "=".
RECURSIVE b64encode(_)
b64encode(bytes) ==
    IF bytes = <<>> THEN <<>>
    ELSE IF Len(bytes) = 1
    THEN <<B64Char(bytes[1] \div 4), B64Char((bytes[1] % 4) * 16), 61, 61>>
    ELSE IF Len(bytes) = 2
    THEN <<B64Char(bytes[1] \div 4), B64Char((bytes[1] % 4) * 16 + bytes[2] \div 16),
           B64Char((bytes[2] % 16) * 4), 61>>
    ELSE <<B64Char(bytes[1] \div 4), B64Char((bytes[1] % 4) * 16 + bytes[2] \div 16),
           B64Char((bytes[2] % 16) * 4 + bytes[3] \div 64), B64Char(bytes[3] % 64)>>
         \o b64encode(SubSeq(bytes, 4, Len(bytes)))

\* base64.b64decode on a text of whole groups of four characters of the
\* alphabet, padded only at its end; binascii.Error on a text of another length
\* or holding another character.
RECURSIVE b64decode(_)
b64decode(chars) ==
    IF chars = <<>> THEN PyList(<<>>)
    ELSE IF Len(chars) < 4 \/ B64Value(chars[1]) < 0 \/ B64Value(chars[2]) < 0
    THEN Raise("binascii.Error")
    ELSE LET v1 == B64Value(chars[1])
             v2 == B64Value(chars[2])
             v3 == B64Value(chars[3])
             v4 == B64Value(chars[4])
             b1 == v1 * 4 + v2 \div 16
             b2 == (v2 % 16) * 16 + v3 \div 4
             b3 == (v3 % 4) * 64 + v4
             rest == b64decode(SubSeq(chars, 5, Len(chars)))
         IN  IF chars[3] = 61 /\ chars[4] = 61
             THEN IF Len(chars) = 4 THEN PyList(<<b1>>) ELSE Raise("binascii.Error")
             ELSE IF chars[4] = 61 /\ v3 >= 0
             THEN IF Len(chars) = 4 THEN PyList(<<b1, b2>>) ELSE Raise("binascii.Error")
             ELSE IF v3 < 0 \/ v4 < 0 \/ rest.t = "raise" THEN Raise("binascii.Error")
             ELSE PyList(<<b1, b2, b3>> \o rest.v)

\* f"{username}:{password}" as UTF-8, in base64; the token is ASCII text.
encrypt_credentials(username, password) == b64encode(Utf8(username \o <<58>> \o password))

\* bytes.decode('utf-8') on the encodings of code points below U+0800.
RECURSIVE Utf8Decode(_)
Utf8Decode(b) ==
    IF b = <<>> THEN <<>>
    ELSE IF Head(b) < 128 THEN <<Head(b)>> \o Utf8Decode(Tail(b))
    ELSE <<(Head(b) - 192) * 64 + (b[2] - 128)>> \o Utf8Decode(Tail(Tail(b)))

\* The index of the first ":" of a string, 0 when it has none.
FirstColon(str) ==
    IF \E i \in 1..Len(str) : str[i] = 58
    THEN CHOOSE i \in 1..Len(str) : str[i] = 58 /\ \A j \in 1..(i - 1) : str[j] # 58
    ELSE 0

\* The pair decrypt_credentials returns; (None, None) is the pair not found.
Credentials(username, password) ==
    [found |-> TRUE, username |-> username, password |-> password]

NoCredentials == [found |-> FALSE, username |-> <<>>, password |-> <<>>]

\* Mutant of decrypt_credentials: the text is split at its last ":".
decrypt_credentials_split_last(encrypted) ==
    LET bytes == b64decode(Utf8(encrypted))
        creds == IF bytes.t = "raise" THEN <<>> ELSE Utf8Decode(bytes.v)
    IN  IF bytes.t = "raise" \/ FirstColon(creds) = 0 THEN NoCredentials
        ELSE LET k == CHOOSE i \in 1..Len(creds) :
                        creds[i] = 58 /\ \A j \in (i + 1)..Len(creds) : creds[j] # 58
             IN Credentials(SubSeq(creds, 1, k - 1), SubSeq(creds, k + 1, Len(creds)))

\* decrypt_credentials: the token decoded and split at its first ":"; any
\* exception (a token that is not base64, a text without ":") gives (None, None).
decrypt_credentials(encrypted) ==
    LET bytes == b64decode(Utf8(encrypted))
        creds == IF bytes.t = "raise" THEN <<>> ELSE Utf8Decode(bytes.v)
        k == FirstColon(creds)
    IN  IF bytes.t = "raise" \/ k = 0 THEN NoCredentials
        ELSE Credentials(SubSeq(creds, 1, k - 1), SubSeq(creds, k + 1, Len(creds)))

NoFile == [exists |-> FALSE, content |-> <<>>, mode |-> "none"]

\* save_credentials: write_text then chmod(0o600), either of which may raise
\* (io: "ok", "write_fails", "chmod_fails"); the exception is swallowed.
save_credentials(file, username, password, io) ==
    CASE io = "write_fails" -> file
      [] io = "chmod_fails" ->
            [exists |-> TRUE, content |-> encrypt_credentials(username, password),
             mode |-> IF file.exists THEN file.mode ELSE "umask"]
      [] OTHER ->
            [exists |-> TRUE, content |-> encrypt_credentials(username, password),
             mode |-> "0600"]

IoOutcomes == {"ok", "write_fails", "chmod_fails"}

\* The Register tab before its button was pressed; afterwards the fields as
\* they were when it was pressed, the message box shown, whether register_user
\* was called and whether the fields were cleared.
RegisterIdle == [pressed |-> FALSE, username |-> <<>>, password |-> <<>>,
                 confirm |-> <<>>, message |-> "", called |-> FALSE, cleared |-> FALSE]

DlgIdle == [login_username |-> <<>>, login_password |-> <<>>, remember |-> FALSE,
            current_user |-> None, accepted |-> FALSE, message |-> "",
            file |-> NoFile, cause |-> "none", returned |-> None, file_before |-> NoFile,
            register |-> RegisterIdle]

\* Why a login attempt did or did not find its user, from the stored rows.
LoginCause(username, password, result) ==
    LET rows == SelectSeq(users, LAMBDA r : r.username = username)
    IN  IF result.t # "list" THEN "bad_response"
        ELSE IF rows = <<>> THEN "no_user"
        ELSE IF ~verify_password(rows[1].password_hash, rows[1].password_salt, password)
             THEN "wrong_password"
        ELSE "match"

\* load_credentials: the pair in the credential file, (None, None) without one.
load_credentials(file) ==
    IF file.exists THEN decrypt_credentials(file.content) ELSE NoCredentials

\* One round trip: a pair is encrypted, then the token decrypted.
EncryptCredentials(username, password) ==
    /\ obf' = [pc |-> "encrypted", username |-> username, password |-> password,
               token |-> encrypt_credentials(username, password), out |-> NoCredentials]
    /\ UNCHANGED <<cred, http, users, expenses, categories, nextId, last, reg, dlg, hist, app>>

DecryptCredentials ==
    /\ obf.pc = "encrypted"
    /\ obf' = [obf EXCEPT !.pc = "decrypted", !.out = decrypt_credentials(obf.token)]
    /\ UNCHANGED <<cred, http, users, expenses, categories, nextId, last, reg, dlg, hist, app>>

\* The program is started again: LoginDialog.__init__ with load_saved_credentials.
OpenDialog ==
    LET saved == load_credentials(dlg.file)
        found == saved.found /\ saved.username # <<>> /\ saved.password # <<>>
    IN  /\ dlg' = [DlgIdle EXCEPT
                    !.file = dlg.file, !.file_before = dlg.file,
                    !.login_username = IF found THEN saved.username ELSE <<>>,
                    !.login_password = IF found THEN saved.password ELSE <<>>,
                    !.remember = found]
        /\ UNCHANGED <<cred, http, users, expenses, categories, nextId, last, reg, hist, app, obf>>

\* The user edits the login form.
EditLogin(username, password, remember) ==
    /\ ~dlg.accepted
    /\ dlg' = [dlg EXCEPT !.login_username = username, !.login_password = password,
                          !.remember = remember, !.cause = "none"]
    /\ UNCHANGED <<cred, http, users, expenses, categories, nextId, last, reg, hist, app, obf>>

\* Mutant of login_rejected: an empty password is sent on.
login_rejected_username_only(username, password) == username = <<>>

\* not username or not password
login_rejected(username, password) == username = <<>> \/ password = <<>>

\* handle_login: the Login button.
HandleLogin(o, io) ==
    LET username == Strip(dlg.login_username)
        password == dlg.login_password
        req == login_request(username)
        user == login_user(Result(req, o), password)
    IN  /\ ~dlg.accepted
        /\ IF login_rejected(username, password)
           THEN /\ dlg' = [dlg EXCEPT !.message = "Please enter username and password",
                                      !.cause = "rejected", !.returned = None,
                                      !.file_before = dlg.file]
                /\ UNCHANGED <<cred, http, users, expenses, categories, nextId, last,
                               reg, hist, app, obf>>
           ELSE /\ DoCall("login_user", <<username, password>>, req, o, user)
                /\ UNCHANGED app
                /\ IF Truthy(user)
                   THEN dlg' = [dlg EXCEPT
                            !.current_user = user,
                            !.accepted = TRUE,
                            !.file = IF dlg.remember
                                     THEN save_credentials(dlg.file, username, password, io)
                                     ELSE dlg.file,
                            !.cause = LoginCause(username, password, Result(req, o)),
                            !.returned = user, !.file_before = dlg.file]
                   ELSE dlg' = [dlg EXCEPT
                            !.message = "Invalid username or password",
                            !.login_password = <<>>,
                            !.cause = LoginCause(username, password, Result(req, o)),
                            !.returned = user, !.file_before = dlg.file]

\* Mutant of register_validation: the password length is checked after the
\* confirmation.
register_validation_confirm_first(username, password, confirm_password) ==
    IF username = <<>> THEN "Username cannot be empty"
    ELSE IF Len(username) < 3 THEN "Username must be at least 3 characters"
    ELSE IF password # confirm_password THEN "Passwords do not match"
    ELSE IF Len(password) < 6 THEN "Password must be at least 6 characters"
    ELSE ""

\* The checks of handle_register, in their order: the message of the first that
\* fails, "" when all pass.
register_validation(username, password, confirm_password) ==
    IF username = <<>> THEN "Username cannot be empty"
    ELSE IF Len(username) < 3 THEN "Username must be at least 3 characters"
    ELSE IF Len(password) < 6 THEN "Password must be at least 6 characters"
    ELSE IF password # confirm_password THEN "Passwords do not match"
    ELSE ""

\* handle_register: the Register button, pressed with the given texts in the
\* fields; o1 and o2 answer the requests of register_user.
HandleRegister(username_text, password, confirm_password, salt, o1, o2) ==
    LET username == Strip(username_text)
        failed == register_validation(username, password, confirm_password)
        check == register_check_request(username)
        insert == register_insert_request(username, password, salt)
        success == register_user(Result(check, o1), Result(insert, o2))
        pressed == [pressed |-> TRUE, username |-> username_text, password |-> password,
                    confirm |-> confirm_password, message |-> failed, called |-> FALSE,
                    cleared |-> FALSE]
    IN  /\ ~dlg.accepted
        /\ IF failed # ""
           THEN /\ dlg' = [dlg EXCEPT !.register = pressed]
                /\ UNCHANGED <<cred, http, users, expenses, categories, nextId, last,
                               reg, hist, app, obf>>
           ELSE /\ RegisterUserCall(username, password, salt, o1, o2)
                /\ dlg' = [dlg EXCEPT !.register =
                            [pressed EXCEPT
                                !.called = TRUE,
                                !.cleared = Truthy(success),
                                !.message = IF Truthy(success)
                                            THEN "Registration successful! Please login."
                                            ELSE "Username already exists or registration failed."]]

----------------------------------------------------------------------------
(* main.py: the add-expense form (AddExpenseDialog.get_data) and the        *)
(* handlers of the main window (ExpenseTrackerApp) that write: add_expense  *)
(* and change_currency, each with the reload it ends with.                  *)

\* The value of a string of decimal digits.
RECURSIVE DigitsValue(_)
DigitsValue(s) ==
    IF s = <<>> THEN 0 ELSE 10 * DigitsValue(SubSeq(s, 1, Len(s) - 1)) + (s[Len(s)] - 48)

\* A float that is no finite number: "inf", "-inf" or "nan".
NonFinite(kind) == [t |-> "float", v |-> kind]

\* float(text) on a text that is, between blanks, an optionally signed string of
\* digits or one of inf, infinity, nan in any letter case; ValueError on every
\* other text of the model (texts with a decimal point or an exponent are not
\* among them).
float(text) ==
    LET str == Strip(text)
        signed == str # <<>> /\ Head(str) \in {43, 45}
        negative == str # <<>> /\ Head(str) = 45
        body == IF signed THEN Tail(str) ELSE str
        word == Lower(body)
    IN  IF body # <<>> /\ \A i \in 1..Len(body) : body[i] \in 48..57
        THEN PyNum(IF negative THEN 0 - DigitsValue(body) ELSE DigitsValue(body))
        ELSE IF word \in {<<105, 110, 102>>, <<105, 110, 102, 105, 110, 105, 116, 121>>}
             THEN NonFinite(IF negative THEN "-inf" ELSE "inf")
        ELSE IF word = <<110, 97, 110>> THEN NonFinite("nan")
        ELSE Raise("ValueError")

\* Mutant of get_data: a text that does not parse counts as the amount 0.
get_data_zero_on_error(amount_text, category, description, date_str, transaction_id) ==
    LET amount == float(amount_text)
    IN  PyDict([amount |-> IF amount.t = "raise" THEN PyNum(0) ELSE amount,
                category |-> category, description |-> description,
                date |-> date_str, transaction_id |-> transaction_id])

\* AddExpenseDialog.get_data: the dict of the form's fields, None when the amount
\* text raises ValueError.
get_data(amount_text, category, description, date_str, transaction_id) ==
    LET amount == float(amount_text)
    IN  IF amount.t = "raise" THEN None
        ELSE PyDict([amount |-> amount, category |-> category, description |-> description,
                     date |-> date_str, transaction_id |-> transaction_id])

\* A table filled from what a list query returned: len() and .get() raise on a
\* value that is no list of rows.
fill_table(exps) ==
    IF exps.t = "list" THEN exps
    ELSE IF exps.t = "dict" THEN Raise("AttributeError")
    ELSE Raise("TypeError")

refresh_dashboard_request(user_id) == get_recent_expenses_request(user_id, 10)

\* refresh_dashboard_table over the expenses collection rows.
refresh_dashboard_table(rows, user_id, o) ==
    fill_table(get_recent_expenses(ResultFrom(rows, refresh_dashboard_request(user_id), o)))

refresh_history_request(user_id, from_date, to_date) ==
    get_expenses_by_date_range_request(user_id, from_date, to_date)

\* refresh_history_table with the category filter on "All".
refresh_history_table(rows, user_id, from_date, to_date, o) ==
    fill_table(get_expenses_by_date_range(
                    ResultFrom(rows, refresh_history_request(user_id, from_date, to_date), o)))

Dollar == <<36>>

\* CURRENCY_SYMBOLS.get(currency, "$")
CurrencySymbol(currency) ==
    CASE currency = "USD" -> Dollar
      [] currency = "EUR" -> <<8364>>
      [] currency = "GBP" -> <<163>>
      [] currency = "JPY" -> <<165>>
      [] currency = "INR" -> <<8377>>
      [] currency = "AUD" -> <<65, 36>>
      [] currency = "CAD" -> <<67, 36>>
      [] currency = "CHF" -> <<67, 72, 70>>
      [] currency = "CNY" -> <<165>>
      [] currency = "SEK" -> <<107, 114>>
      [] currency = "NZD" -> <<78, 90, 36>>
      [] currency = "MXN" -> Dollar
      [] currency = "SGD" -> <<83, 36>>
      [] currency = "HKD" -> <<72, 75, 36>>
      [] currency = "NOK" -> <<107, 114>>
      [] currency = "KRW" -> <<8361>>
      [] currency = "TRY" -> <<8378>>
      [] currency = "RUB" -> <<8381>>
      [] currency = "BRL" -> <<82, 36>>
      [] currency = "ZAR" -> <<82>>
      [] OTHER -> Dollar

\* The analytics tab with its chart removed.
NoChart == [type |-> "none", bars |-> <<>>]

\* timedelta(days=30): the days the "By Category" chart looks back.
ChartPeriod == 30

\* create_daily_chart: the total of each date, for the last 30 dates present;
\* iterating a value that is no list of rows raises.
create_daily_chart(exps) ==
    IF exps.t = "list"
    THEN LET dates == {exps.v[i].date : i \in 1..Len(exps.v)}
             last30 == {d \in dates : Cardinality({e \in dates : e > d}) < 30}
         IN  PyDict([d \in last30 |->
                        SumSeq([i \in 1..Len(exps.v) |->
                                    IF exps.v[i].date = d THEN exps.v[i].amount ELSE 0])])
    ELSE Raise("TypeError")

\* create_category_pie_chart: the slices are the totals given; "No data
\* available" for an empty dict.
create_category_pie_chart(category_data) == category_data

\* The search tab before its button was pressed.
NoSearch == [pressed |-> FALSE, query |-> <<>>, category |-> "", min_amount |-> 0,
             max_amount |-> 0]

\* init_default_categories: the names of default_categories, in order.
default_categories ==
    <<"Food & Dining", "Transportation", "Shopping", "Entertainment",
      "Bills & Utilities", "Healthcare", "Other">>

\* The main window of a user, as ExpenseTrackerApp.__init__ leaves it, and what
\* its last handler did: the requests it issued, the message box it showed,
\* whether an exception left it.
\* Besides the rows of each view, shown holds the currency symbol the view was
\* last rendered with, answers the backend's answers to reqs, reply the answer
\* to the confirmation prompt of delete_expense ("none": no prompt was shown).
AppOf(user_id, from_date, to_date) ==
    [handler |-> "none", user_id |-> user_id, currency |-> "USD", symbol |-> Dollar,
     from_date |-> from_date, to_date |-> to_date,
     totals |-> [today |-> 0, week |-> 0, month |-> 0],
     dashboard |-> <<>>, history |-> <<>>, chart |-> [type |-> "Daily", bars |-> <<>>],
     search |-> <<>>,
     searched |-> NoSearch,
     categories |-> default_categories,
     shown |-> [totals |-> Dollar, dashboard |-> Dollar, history |-> Dollar,
                search |-> Dollar],
     accepted |-> FALSE, amount_text |-> <<>>, data |-> None,
     reply |-> "none", expense_id |-> 0,
     reqs |-> <<>>, answers |-> <<>>, message |-> "", raised |-> FALSE]

\* The fields a handler starts from: nothing asked, requested or shown yet.
Started(a, handler) ==
    [a EXCEPT !.handler = handler, !.accepted = FALSE, !.amount_text = <<>>,
              !.data = None, !.reply = "none", !.expense_id = 0,
              !.reqs = <<>>, !.answers = <<>>, !.message = "", !.raised = FALSE]

\* load_expenses: refresh_dashboard_table, then refresh_history_table; an
\* exception in the first leaves the handler before the second.
LoadExpenses(a, rows, o2, o3) ==
    LET dash == refresh_dashboard_table(rows, a.user_id, o2)
        hist_table == refresh_history_table(rows, a.user_id, a.from_date, a.to_date, o3)
        dashreq == Logged(refresh_dashboard_request(a.user_id))
        histreq == Logged(refresh_history_request(a.user_id, a.from_date, a.to_date))
    IN  IF dash.t = "raise"
        THEN [a EXCEPT !.reqs = a.reqs \o <<dashreq>>, !.answers = a.answers \o <<o2>>,
                       !.raised = TRUE]
        ELSE IF hist_table.t = "raise"
        THEN [a EXCEPT !.reqs = a.reqs \o <<dashreq, histreq>>,
                       !.answers = a.answers \o <<o2, o3>>,
                       !.dashboard = dash.v, !.shown.dashboard = a.symbol,
                       !.raised = TRUE]
        ELSE [a EXCEPT !.reqs = a.reqs \o <<dashreq, histreq>>,
                       !.answers = a.answers \o <<o2, o3>>,
                       !.dashboard = dash.v, !.shown.dashboard = a.symbol,
                       !.history = hist_table.v, !.shown.history = a.symbol]

\* The last data-access operation load_expenses completed.
LoadExpensesLast(a, rows, o2, o3) ==
    LET dashreq == refresh_dashboard_request(a.user_id)
        dashres == ResultFrom(rows, dashreq, o2)
        histreq == refresh_history_request(a.user_id, a.from_date, a.to_date)
        histres == ResultFrom(rows, histreq, o3)
    IN  IF refresh_dashboard_table(rows, a.user_id, o2).t = "raise"
        THEN OpRecord("get_recent_expenses", <<a.user_id, 10>>, dashreq, dashres,
                      get_recent_expenses(dashres))
        ELSE OpRecord("get_expenses_by_date_range", <<a.user_id, a.from_date, a.to_date>>,
                      histreq, histres, get_expenses_by_date_range(histres))

\* A request body that carries a float json cannot write is never carried out:
\* requests raises on it, or sends a token the backend rejects.
Encodable(amount) == amount.t = "num"

\* ExpenseTrackerApp.add_expense: the dialog is shown and closed (accepted or
\* not) with the given fields; o answers the POST, o2 and o3 the two queries of
\* the reload.
AddExpenseForm(accepted, amount_text, category, description, date_str, transaction_id, o, o2, o3) ==
    LET data == get_data(amount_text, category, description, date_str, transaction_id)
        start == [Started(app, "add_expense") EXCEPT
                             !.accepted = accepted, !.amount_text = amount_text,
                             !.data = IF accepted THEN data ELSE None]
    IN  /\ IF ~accepted
           THEN /\ app' = start
                /\ UNCHANGED <<users, expenses, categories, nextId, last, hist>>
           ELSE IF ~Truthy(data)
           THEN /\ app' = [start EXCEPT !.message = "Invalid amount entered"]
                /\ UNCHANGED <<users, expenses, categories, nextId, last, hist>>
           ELSE LET amount == data.v.amount
                    args == <<app.user_id, amount.v, category, description, date_str,
                              transaction_id>>
                    req == add_expense_request(app.user_id, amount.v, category,
                                               description, date_str, transaction_id)
                    added == add_expense(Result(req, o))
                    posted == [start EXCEPT !.reqs = <<Logged(req)>>, !.answers = <<o>>]
                    stored == After("expenses", req, o)
                IN  /\ HasRoom(req)
                    /\ ~Encodable(amount) => o \in {"error", "exception"}
                    /\ Commit(req, o)
                    /\ hist' = [hist EXCEPT !.allOk = hist.allOk /\ PyEq(added, PyTrue)]
                    /\ IF Truthy(added)
                       THEN /\ app' = LoadExpenses(
                                        [posted EXCEPT !.message = "Expense added successfully!"],
                                        stored, o2, o3)
                            /\ last' = LoadExpensesLast(posted, stored, o2, o3)
                       ELSE /\ app' = [posted EXCEPT !.message = "Failed to add expense"]
                            /\ last' = OpRecord("add_expense", args, req, Result(req, o), added)
        /\ UNCHANGED <<cred, http, reg, dlg, obf>>

\* ExpenseTrackerApp.change_currency: o answers the PATCH, o2 and o3 the two
\* queries of the reload.
ChangeCurrency(new_currency, o, o2, o3) ==
    LET req == set_user_currency_request(app.user_id, new_currency)
        changed == set_user_currency(Result(req, o))
        start == [Started(app, "change_currency") EXCEPT
                             !.reqs = <<Logged(req)>>, !.answers = <<o>>]
    IN  /\ Commit(req, o)
        /\ IF Truthy(changed)
           THEN /\ app' = LoadExpenses([start EXCEPT !.currency = new_currency,
                                                     !.symbol = CurrencySymbol(new_currency)],
                                       expenses, o2, o3)
                /\ last' = LoadExpensesLast(start, expenses, o2, o3)
           ELSE /\ app' = [start EXCEPT !.message = "Failed to change currency"]
                /\ last' = OpRecord("set_user_currency", <<app.user_id, new_currency>>, req,
                                    Result(req, o), changed)
        /\ UNCHANGED <<cred, http, reg, dlg, hist, obf>>

\* Mutant of confirmed: any answer to the prompt counts as a confirmation.
confirmed_any(reply) == TRUE

\* reply == QMessageBox.Yes
confirmed(reply) == reply = "Yes"

\* ExpenseTrackerApp.delete_expense, from the Delete button of a row of the
\* history table: reply answers the prompt "Delete this expense?", o the
\* DELETE, o2 and o3 the two queries of the reload.
DeleteExpenseForm(expense_id, reply, o, o2, o3) ==
    LET req == delete_expense_request(expense_id)
        deleted == delete_expense(Result(req, o))
        start == [Started(app, "delete_expense") EXCEPT
                        !.reply = reply, !.expense_id = expense_id]
        sent == [start EXCEPT !.reqs = <<Logged(req)>>, !.answers = <<o>>]
        stored == After("expenses", req, o)
    IN  /\ \E i \in 1..Len(app.history) : app.history[i].id = expense_id
        /\ IF ~confirmed(reply)
           THEN /\ app' = start
                /\ UNCHANGED <<users, expenses, categories, nextId, last, hist>>
           ELSE /\ Commit(req, o)
                /\ hist' = [hist EXCEPT !.allOk = hist.allOk /\ PyEq(deleted, PyTrue)]
                /\ IF Truthy(deleted)
                   THEN /\ app' = LoadExpenses([sent EXCEPT !.message = "Expense deleted!"],
                                               stored, o2, o3)
                        /\ last' = LoadExpensesLast(sent, stored, o2, o3)
                   ELSE /\ app' = [sent EXCEPT !.message = "Failed to delete expense"]
                        /\ last' = OpRecord("delete_expense", <<expense_id>>, req,
                                            Result(req, o), deleted)
        /\ UNCHANGED <<cred, http, reg, dlg, obf>>

\* ExpenseTrackerApp.perform_search: the Search button, with the given texts
\* and values in the fields of the tab.
PerformSearch(query, category_text, min_amount, max_amount, o) ==
    LET category == IF category_text = "All" THEN "" ELSE category_text
        req == search_expenses_request(app.user_id, category, min_amount, max_amount)
        found == search_expenses(Result(req, o), query)
        table == fill_table(found)
        start == [Started(app, "perform_search") EXCEPT
                        !.reqs = <<Logged(req)>>, !.answers = <<o>>,
                        !.searched = [pressed |-> TRUE, query |-> query,
                                      category |-> category, min_amount |-> min_amount,
                                      max_amount |-> max_amount]]
    IN  /\ DoCall("search_expenses", <<app.user_id, query, category, min_amount, max_amount>>,
                  req, o, found)
        /\ app' = IF table.t = "raise" THEN [start EXCEPT !.raised = TRUE]
                  ELSE [start EXCEPT !.search = table.v, !.shown.search = app.symbol]
        /\ UNCHANGED dlg

\* ExpenseTrackerApp.update_chart for the views "Daily" and "By Category" on the
\* day today: the old chart is removed, get_expenses is called (o), for "By
\* Category" get_expenses_by_category_for_period as well (o2), and the new
\* chart is added.
UpdateChart(chart_type, today, o, o2) ==
    LET req == get_expenses_request(app.user_id, 1000)
        exps == get_expenses(Result(req, o))
        req2 == get_expenses_by_date_range_request(app.user_id, today - ChartPeriod, today)
        res2 == get_expenses_by_date_range(Result(req2, o2))
        category_data == get_expenses_by_category_for_period(res2)
        figure == IF chart_type = "Daily" THEN create_daily_chart(exps)
                  ELSE create_category_pie_chart(category_data)
        start == [Started(app, "update_chart") EXCEPT !.chart = NoChart]
    IN  /\ chart_type \in {"Daily", "By Category"}
        /\ IF chart_type = "Daily"
           THEN /\ app' = IF figure.t = "raise"
                          THEN [start EXCEPT !.reqs = <<Logged(req)>>, !.answers = <<o>>,
                                             !.raised = TRUE]
                          ELSE [start EXCEPT !.reqs = <<Logged(req)>>, !.answers = <<o>>,
                                             !.chart = [type |-> chart_type, bars |-> figure.v]]
                /\ last' = OpRecord("get_expenses", <<app.user_id, 1000>>, req,
                                    Result(req, o), exps)
           ELSE /\ app' = [start EXCEPT !.reqs = <<Logged(req), Logged(req2)>>,
                                        !.answers = <<o, o2>>,
                                        !.chart = [type |-> chart_type, bars |-> figure.v]]
                /\ last' = OpRecord("get_expenses_by_category_for_period",
                                    <<app.user_id, today - ChartPeriod, today>>, req2,
                                    Result(req2, o2), category_data)
        /\ UNCHANGED <<cred, http, users, expenses, categories, nextId, reg, dlg, hist, obf>>

----------------------------------------------------------------------------
(* Inputs and specifications.                                               *)

Today == Ordinal(2024, 1, 17)
MonthAgo == Ordinal(2023, 12, 17)

\* The main window of user 1, opened today.
AppIdle == AppOf(1, MonthAgo, Today)
ObfIdle == [pc |-> "idle", username |-> <<>>, password |-> <<>>, token |-> <<>>,
            out |-> NoCredentials]

Alice == <<97, 108, 105, 99, 101>>
Bob == <<98, 111, 98>>
Secret1 == <<115, 101, 99, 114, 101, 116, 49>>
Secret2 == <<115, 101, 99, 114, 101, 116, 50>>

Usernames == {Alice, Bob}
Passwords == {Secret1, Secret2}
Salt1 == <<48, 97>>

UserIds == {1, 2}
Amounts == {5, 7}
Day1 == Ordinal(2024, 1, 15)
Day2 == Ordinal(2024, 1, 17)
Days == {Day1, Day2}

Init ==
    /\ cred = CredIdle
    /\ http = HttpIdle
    /\ users = <<>>
    /\ expenses = <<>>
    /\ categories = <<>>
    /\ nextId = 1
    /\ last = LastIdle
    /\ reg = [c \in Clients |-> RegIdle]
    /\ dlg = DlgIdle
    /\ hist = [allOk |-> TRUE]
    /\ app = AppIdle
    /\ obf = ObfIdle

(* Registration and login through the data-access object, one call at a time. *)
Next ==
    \/ \E u \in Usernames, p \in Passwords, s \in Salts, o1 \in Outcomes, o2 \in Outcomes :
            RegisterUser(u, p, s, o1, o2)
    \/ \E u \in Usernames, p \in Passwords, o \in Outcomes : LoginUser(u, p, o)

Spec == Init /\ [][Next]_vars

(* The credential functions on every password of the bound. *)
NextCred ==
    \/ \E p \in Strings(MaxPwLen), s \in Salts : HashPassword(p, s)
    \/ \E c \in Strings(MaxPwLen) : VerifyPassword(c)

SpecCred == Init /\ [][NextCred]_vars

(* The generic request on every method and response. *)
NextReq == \E m \in Methods, r \in Responses : MakeRequest(m, r)

SpecReq == Init /\ [][NextReq]_vars

(* Two clients registering at once. *)
NextRace ==
    \/ \E c \in Clients, u \in Usernames, o \in Outcomes : RegCheck(c, u, Secret1, o)
    \/ \E c \in Clients, o \in Outcomes : RegInsert(c, Salt1, o)

SpecRace == Init /\ [][NextRace]_vars

(* The login dialog over registered users. *)
LoginFields == {<<>>, Alice, <<32>> \o Alice, Bob}

NextLogin ==
    \/ \E u \in Usernames, p \in Passwords : RegisterUser(u, p, Salt1, "ok", "ok_empty")
    \/ \E u \in LoginFields, p \in Passwords \cup {<<>>}, r \in BOOLEAN : EditLogin(u, p, r)
    \/ \E o \in Outcomes, io \in IoOutcomes : HandleLogin(o, io)
    \/ OpenDialog

SpecLogin == Init /\ [][NextLogin]_vars

(* The Register tab of the dialog: texts that fail each check of            *)
(* handle_register, and texts that pass them all.                          *)
Blanks == <<32, 32>>
Ab == <<32, 97, 98, 32>>
Short == <<49, 50, 51, 52, 53>>
RegisterNames == {<<>>, Blanks, Ab, Bob, <<32>> \o Bob}
RegisterPasswords == {Short, Secret1}
Confirmations == {Short, Secret1, Secret2}

NextRegister ==
    \E u \in RegisterNames, p \in RegisterPasswords, c \in Confirmations,
       o1 \in Outcomes, o2 \in Outcomes : HandleRegister(u, p, c, Salt1, o1, o2)

SpecRegister == Init /\ [][NextRegister]_vars

(* Expenses added, deleted and totalled for two registered users. *)
InitExp ==
    /\ cred = CredIdle
    /\ http = HttpIdle
    /\ users = <<[id |-> 1, username |-> Alice,
                  password_hash |-> hash_password(Secret1, Salt1).hash,
                  password_salt |-> Salt1, currency |-> "USD"],
                 [id |-> 2, username |-> Bob,
                  password_hash |-> hash_password(Secret2, Salt1).hash,
                  password_salt |-> Salt1, currency |-> "USD"]>>
    /\ expenses = <<>>
    /\ categories = <<>>
    /\ nextId = 1
    /\ last = LastIdle
    /\ reg = [c \in Clients |-> RegIdle]
    /\ dlg = DlgIdle
    /\ hist = [allOk |-> TRUE]
    /\ app = AppIdle
    /\ obf = ObfIdle

NextExp ==
    \/ \E u \in UserIds, a \in Amounts, d \in Days, o \in Outcomes :
            AddExpense(u, a, "Food", <<>>, d, <<>>, o)
    \/ \E id \in 1..(MaxExpenses + 1), o \in Outcomes : DeleteExpense(id, o)
    \/ \E u \in UserIds, d \in Days, o \in Outcomes : GetDailyTotal(u, d, o)

SpecExp == InitExp /\ [][NextExp]_vars


(* Expenses entered through the form and queried by date range and by search. *)
Tea == <<84, 101, 97>>
T1 == <<116, 49>>
Five == <<53>>
MinusFive == <<45, 53>>
Seven == <<55>>
MidDay == Ordinal(2024, 1, 16)

\* The forms submitted: amount text, category, description, date, transaction id.
Entries ==
    {<<Five, "Food", Tea, Day1, <<>>>>,
     <<Seven, "Travel", <<>>, Day2, T1>>,
     <<MinusFive, "Food", <<>>, Day2, <<>>>>}

\* The date ranges queried: start and end.
Ranges == {<<Day1, Day1>>, <<Day1, Day2>>, <<MidDay, Day2>>, <<Day2, Day1>>}

QueryOutcomes == {"ok", "ok_empty", "error"}

\* The search texts: none, "tE", "T1".
Queries == {<<>>, <<116, 69>>, <<84, 49>>}

\* The amount bounds searched with: min_amount and max_amount.
AmountBounds == {<<0, Infinity>>, <<0, 6>>, <<6, Infinity>>}

NextQuery ==
    \/ \E e \in Entries, o \in {"ok", "error"} :
            AddExpenseForm(TRUE, e[1], e[2], e[3], e[4], e[5], o, "ok", "ok")
    \/ AddExpense(2, 7, "Food", Tea, Day1, <<>>, "ok")
    \/ \E u \in UserIds, r \in Ranges, o \in QueryOutcomes :
            GetExpensesByDateRange(u, r[1], r[2], o)
    \/ \E u \in UserIds, q \in Queries, c \in {"", "Food"}, b \in AmountBounds,
           o \in QueryOutcomes :
            SearchExpenses(u, q, c, b[1], b[2], o)

SpecQuery == InitExp /\ [][NextQuery]_vars


(* The totals over a week, a month and a year, on dates across the calendar. *)

\* Target dates: each day of the week of 2024-01-15, the leap day, the ends of
\* a year, the first day of the calendar and its last ten days.
TargetDates ==
    {Ordinal(2024, 1, d) : d \in 15..21}
    \cup {Ordinal(2024, 2, 29), Ordinal(2024, 12, 31), Ordinal(2025, 1, 1), Ordinal(1, 1, 1)}
    \cup {Ordinal(9999, 12, d) : d \in 22..31}

TargetYears == {1, 2023, 2024, 9999}

NextTotals ==
    \/ \E a \in Amounts, d \in Days : AddExpense(1, a, "Food", <<>>, d, <<>>, "ok")
    \/ \E t \in TargetDates, o \in QueryOutcomes : GetWeeklyTotal(1, t, o)
    \/ \E y \in TargetYears, m \in 1..12, o \in QueryOutcomes : GetMonthlyTotal(1, y, m, o)
    \/ \E y \in TargetYears \cup {10000}, o \in QueryOutcomes : GetYearlyTotal(1, y, o)

SpecTotals == InitExp /\ [][NextTotals]_vars


(* The credential obfuscation on usernames and passwords made of ":", "a"  *)
(* and a two-byte character.                                               *)
CredChars == {58, 97, 233}

CredStrings == UNION {[1..k -> CredChars] : k \in 0..MaxPwLen}

NextObf ==
    \/ \E u \in CredStrings, p \in CredStrings : EncryptCredentials(u, p)
    \/ DecryptCredentials

SpecObf == Init /\ [][NextObf]_vars


(* The main window of user 1: forms submitted and the currency changed.   *)

\* Amount texts that are no number: "abc" and the empty text.
NotANumber == {<<97, 98, 99>>, <<>>}

\* Amount texts float() accepts: "5", "-5", "inf", "NaN".
Numbers == {Five, MinusFive, <<105, 110, 102>>, <<78, 97, 78>>}

AmountTexts == Numbers \cup NotANumber

\* The dialogs closed: accepted or not, and the amount text.
Submissions == {<<FALSE, Five>>} \cup {<<TRUE, t>> : t \in AmountTexts}

WriteOutcomes == {"ok", "ok_empty", "error"}
ReloadOutcomes == {"ok", "ok_empty"}

NextApp ==
    \/ \E f \in Submissions, o \in WriteOutcomes, o2 \in ReloadOutcomes, o3 \in ReloadOutcomes :
            AddExpenseForm(f[1], f[2], "Food", <<>>, Day1, <<>>, o, o2, o3)
    \/ \E o \in WriteOutcomes, o2 \in ReloadOutcomes, o3 \in ReloadOutcomes :
            ChangeCurrency("EUR", o, o2, o3)

SpecApp == InitExp /\ [][NextApp]_vars


(* The main window of user 1 with all its handlers.                        *)
\* The categories collection after add_category was called for each of names
\* in turn, the i-th POST answered with outs[i].
RECURSIVE DefaultsAdded(_, _, _, _)
DefaultsAdded(rows, user_id, names, outs) ==
    IF names = <<>> THEN rows
    ELSE DefaultsAdded(IF outs[1] \in Applied
                       THEN Append(rows, [id |-> Len(rows) + 1, user_id |-> user_id,
                                          name |-> names[1]])
                       ELSE rows,
                       user_id, Tail(names), Tail(outs))

\* if not self.categories
init_needed(fetched) == ~Truthy(fetched)

\* A total of the dashboard as create_dashboard_tab computes it.
dashboard_total(rows, user_id, range, o) ==
    IF range.t = "raise" THEN 0
    ELSE TryExcept(SumAmounts(get_expenses_by_date_range(
                        ResultFrom(rows, get_expenses_by_date_range_request(
                                            user_id, range.start, range.end), o))),
                   PyNum(0)).v

\* ExpenseTrackerApp.__init__ for user_id on the day Today: oc answers the
\* fetch of the user row, og the fetch of the categories, oi[i] the insert of
\* the i-th default category, ov every query of init_ui and load_expenses.
StartUp(user_id, oc, og, oi, ov) ==
    LET curreq == get_user_by_id_request(user_id)
        currency == get_user_currency(get_user_by_id(Result(curreq, oc))).v
        catreq == get_categories_request(user_id)
        fetched == get_categories(Result(catreq, og))
        needed == init_needed(fetched)
        posts == [i \in 1..Len(default_categories) |->
                    Logged(add_category_request(user_id, default_categories[i]))]
        chartreq == get_expenses_request(user_id, 1000)
        figure == create_daily_chart(get_expenses(Result(chartreq, ov)))
        month == monthly_range(2024, 1)
        week == weekly_range(Today)
        day == Range(PyNum(Today), PyNum(Today))
        totalreq(range) == Logged(get_expenses_by_date_range_request(
                                        user_id, range.start, range.end))
        dash == refresh_dashboard_table(expenses, user_id, ov)
        hist_table == refresh_history_table(expenses, user_id, MonthAgo, Today, ov)
        a0 == [AppOf(user_id, MonthAgo, Today) EXCEPT
                    !.handler = "__init__",
                    !.currency = currency,
                    !.symbol = CurrencySymbol(currency),
                    !.categories = IF needed THEN default_categories ELSE fetched.v,
                    !.reqs = <<Logged(curreq), Logged(catreq)>>
                             \o (IF needed THEN posts ELSE <<>>)
                             \o <<totalreq(day), totalreq(week), totalreq(month)>>,
                    !.answers = <<oc, og>> \o (IF needed THEN oi ELSE <<>>)
                                \o <<ov, ov, ov>>,
                    !.totals = [today |-> dashboard_total(expenses, user_id, day, ov),
                                week |-> dashboard_total(expenses, user_id, week, ov),
                                month |-> dashboard_total(expenses, user_id, month, ov)],
                    !.shown = [totals |-> CurrencySymbol(currency),
                               dashboard |-> CurrencySymbol(currency),
                               history |-> CurrencySymbol(currency),
                               search |-> CurrencySymbol(currency)]]
        \* create_dashboard_tab and create_history_tab fill the two tables
        a1 == LoadExpenses(a0, expenses, ov, ov)
        \* create_analytics_tab draws the "Daily" chart
        a2 == IF a1.raised THEN a1
              ELSE IF figure.t = "raise"
              THEN [a1 EXCEPT !.reqs = a1.reqs \o <<Logged(chartreq)>>,
                              !.answers = a1.answers \o <<ov>>, !.raised = TRUE]
              ELSE [a1 EXCEPT !.reqs = a1.reqs \o <<Logged(chartreq)>>,
                              !.answers = a1.answers \o <<ov>>,
                              !.chart = [type |-> "Daily", bars |-> figure.v]]
    IN  /\ Len(oi) = Len(default_categories)
        /\ Len(categories) + Len(default_categories)
                <= MaxStartUps * Len(default_categories)
        /\ categories' = IF needed
                         THEN DefaultsAdded(categories, user_id, default_categories, oi)
                         ELSE categories
        /\ app' = IF a2.raised THEN a2 ELSE LoadExpenses(a2, expenses, ov, ov)
        /\ last' = LoadExpensesLast(a2, expenses, ov, ov)
        /\ UNCHANGED <<cred, http, users, expenses, nextId, reg, dlg, hist, obf>>


ShellOutcomes == {"ok", "error"}
Replies == {"Yes", "No"}
ChartTypes == {"Daily", "By Category"}

NextShell ==
    \/ \E o \in ShellOutcomes, r \in ShellOutcomes :
            AddExpenseForm(TRUE, Five, "Food", <<>>, Day1, <<>>, o, r, r)
    \/ \E id \in 1..(MaxExpenses + 1), reply \in Replies,
          o \in ShellOutcomes, r \in ShellOutcomes :
            DeleteExpenseForm(id, reply, o, r, r)
    \/ \E o \in ShellOutcomes \cup {"no_content"}, r \in ShellOutcomes :
            ChangeCurrency("EUR", o, r, r)
    \/ PerformSearch(<<>>, "All", 0, 100000, "ok")

SpecShell == InitExp /\ [][NextShell]_vars

(* The views of the main window of user 1 while user 2 adds expenses too.   *)
NextViews ==
    \/ AddExpenseForm(TRUE, Five, "Food", <<>>, Day1, <<>>, "ok", "ok", "ok")
    \/ AddExpense(2, 7, "Food", <<>>, Day1, <<>>, "ok")
    \/ \E id \in 1..(MaxExpenses + 1) : DeleteExpenseForm(id, "Yes", "ok", "ok", "ok")
    \/ \E q \in {<<>>, Tea} : PerformSearch(q, "All", 0, 100000, "ok")
    \/ \E t \in ChartTypes : UpdateChart(t, Today, "ok", "ok")

SpecViews == InitExp /\ [][NextViews]_vars


(* The preferred currency read and written. Row 2 holds no currency: the   *)
(* column is null, as for a row written without it where the column has no *)
(* default.                                                                *)
InitCur ==
    /\ cred = CredIdle
    /\ http = HttpIdle
    /\ users = <<[id |-> 1, username |-> Alice,
                  password_hash |-> hash_password(Secret1, Salt1).hash,
                  password_salt |-> Salt1, currency |-> "USD"],
                 [id |-> 2, username |-> Bob,
                  password_hash |-> hash_password(Secret2, Salt1).hash,
                  password_salt |-> Salt1, currency |-> Null]>>
    /\ expenses = <<>>
    /\ categories = <<>>
    /\ nextId = 1
    /\ last = LastIdle
    /\ reg = [c \in Clients |-> RegIdle]
    /\ dlg = DlgIdle
    /\ hist = [allOk |-> TRUE]
    /\ app = AppIdle
    /\ obf = ObfIdle

\* Ids 1 and 2 are stored rows; 3 is no user.
CurrencyUsers == 1..3
Currencies == {"EUR", "GBP"}

NextCur ==
    \/ \E u \in CurrencyUsers, o \in Outcomes : GetUserCurrency(u, o)
    \/ \E u \in CurrencyUsers, c \in Currencies, o \in Outcomes : SetUserCurrency(u, c, o)

SpecCur == InitCur /\ [][NextCur]_vars


(* Every public operation of the data-access object, on one user's data. *)
LastDay == Ordinal(9999, 12, 31)

NextOps ==
    \/ \E o1 \in Outcomes, o2 \in Outcomes : RegisterUser(Alice, Secret1, Salt1, o1, o2)
    \/ \E o \in Outcomes : LoginUser(Alice, Secret1, o)
    \/ \E o \in Outcomes : AddExpense(1, 5, "Food", <<>>, Day1, <<>>, o)
    \/ \E o \in Outcomes : UpdateExpense(1, [amount |-> 7], o)
    \/ \E o \in Outcomes : DeleteExpense(1, o)
    \/ \E o \in Outcomes : GetExpenses(1, 100, o)
    \/ \E o \in Outcomes : GetRecentExpenses(1, 10, o)
    \/ \E o \in Outcomes : GetExpensesByDateRange(1, Day1, Day2, o)
    \/ \E o \in Outcomes : GetExpensesByCategory(1, "Food", o)
    \/ \E q \in {<<>>, <<97>>}, o \in Outcomes : SearchExpenses(1, q, "", 0, Infinity, o)
    \/ \E o \in Outcomes : GetDailyTotal(1, Day1, o)
    \/ \E d \in {Day2, LastDay}, o \in Outcomes : GetWeeklyTotal(1, d, o)
    \/ \E y \in {2024, 9999}, o \in Outcomes : GetMonthlyTotal(1, y, 12, o)
    \/ \E y \in {2024, 10000}, o \in Outcomes : GetYearlyTotal(1, y, o)
    \/ \E o \in Outcomes : GetExpensesByCategoryForPeriod(1, Day1, Day2, o)
    \/ \E o \in Outcomes : GetCategories(1, o)
    \/ \E o \in Outcomes : AddCategory(1, "Food", o)
    \/ \E o \in Outcomes : GetUserById(1, o)
    \/ \E o \in Outcomes : SetUserCurrency(1, "EUR", o)
    \/ \E o \in Outcomes : GetUserCurrency(1, o)

SpecOps == Init /\ [][NextOps]_vars


----------------------------------------------------------------------------
(* Properties.                                                              *)

\* C1 (as claimed): verify_password on the pair hash_password(P) returned
\* answers true for P and false for every password other than P.
C1_VerifyAcceptsExactlyThePassword ==
    cred.pc = "verified" => (cred.verified <=> cred.candidate = cred.password)

\* Part of C1 that holds: the password that was hashed verifies.
VerifyAcceptsThePassword ==
    (cred.pc = "verified" /\ cred.candidate = cred.password) => cred.verified

\* The rows of the users collection stored under a username.
StoredAs(username) == SelectSeq(users, LAMBDA r : r.username = username)

\* C2: when register_user's existence check returns a list holding a row with
\* the requested username, the call returns False, issues no POST and leaves the
\* stored user rows as they were.
C2_ExistingUserNotInserted ==
    [][(/\ last'.op = "register_user"
        /\ last'.results[1].t = "list"
        /\ \E i \in 1..Len(last'.results[1].v) :
                last'.results[1].v[i].username = last'.args[1])
       => (/\ PyEq(last'.ret, PyFalse)
           /\ \A i \in 1..Len(last'.reqs) : last'.reqs[i].method # "POST"
           /\ users' = users)]_vars

\* C2 witness: a registration was refused because the check found the username.
C2_Witness ==
    /\ last.op = "register_user"
    /\ last.results[1].t = "list"
    /\ Len(last.results[1].v) > 0
    /\ PyEq(last.ret, PyFalse)
    /\ Len(last.reqs) = 1

\* C3 (as claimed): after register_user calls made one at a time, whatever the
\* requests' outcomes, no two stored user rows have the same username.
C3_UsernamesUnique ==
    \A i, j \in 1..Len(users) : i # j => users[i].username # users[j].username

\* Both clients registered the same username, each after a check that found no
\* row, and the backend stored both inserts and said so.
RacedPair(c1, c2) ==
    /\ c1 # c2
    /\ reg[c1].pc = "done" /\ reg[c2].pc = "done"
    /\ reg[c1].username = reg[c2].username
    /\ \A c \in {c1, c2} :
        /\ reg[c].existing.t = "list" /\ Len(reg[c].existing.v) = 0
        /\ reg[c].outcome \in {"ok", "ok_empty"}

\* C4: two register_user calls for one username whose existence checks both
\* complete before either insert both return True and leave two rows with that
\* username (the backend enforcing no uniqueness).
C4_RaceStoresDuplicates ==
    \A c1, c2 \in Clients :
        RacedPair(c1, c2) =>
            /\ PyEq(reg[c1].ret, PyTrue) /\ PyEq(reg[c2].ret, PyTrue)
            /\ Len(StoredAs(reg[c1].username)) >= 2

\* C4 witness: the interleaving happened.
C4_Witness ==
    /\ RacedPair("c1", "c2")
    /\ PyEq(reg["c1"].ret, PyTrue) /\ PyEq(reg["c2"].ret, PyTrue)
    /\ Len(StoredAs(reg["c1"].username)) = 2

\* The password gives the row's hash under the row's salt.
VerifiesAgainst(row, password) ==
    row.password_hash = hash_password(password, row.password_salt).hash

C6_FailedLoginsIndistinguishable ==
    dlg.cause \in {"no_user", "wrong_password"} =>
        /\ dlg.returned.t = "None"
        /\ dlg.message = "Invalid username or password"
        /\ dlg.login_password = <<>>
        /\ ~dlg.accepted
        /\ dlg.current_user.t = "None"
        /\ dlg.file = dlg.file_before

\* C6 witness: a login with a stored username and a wrong password has failed,
\* with a credential file on disk from an earlier session.
C6_Witness ==
    /\ dlg.cause = "wrong_password"
    /\ dlg.file.exists

\* C6, the other case: a login with a username that is not stored has failed.
C6_WitnessNoUser == dlg.cause = "no_user" /\ users # <<>> /\ dlg.file.exists

\* C7: _make_request returns the parsed body for a 200/201 response with a JSON
\* body, True for a 200/201 response with an empty body, and None for a response
\* with any other status code.
C7_RequestContract ==
    http.method \in {"GET", "POST", "PATCH", "DELETE"} /\ http.response.kind # "exception" =>
        /\ (http.response.status \in {200, 201} /\ http.response.kind = "json")
                => PyEq(http.value, http.response.json)
        /\ (http.response.status \in {200, 201} /\ http.response.kind = "empty")
                => PyEq(http.value, PyTrue)
        /\ http.response.status \notin {200, 201} => PyEq(http.value, None)

\* C7 witness: a 204 answer to a DELETE came back as None.
C7_Witness ==
    /\ http.method = "DELETE"
    /\ http.response.status = 204
    /\ PyEq(http.value, None)

\* C8: whatever the backend answers, no operation of the data-access object
\* raises: each returns a value.
C8_NoOperationRaises ==
    /\ last.ret.t # "raise"
    /\ \A i \in 1..Len(last.results) : last.results[i].t # "raise"

\* C8 witness: login_user got True from the request (len(True) raises inside
\* its try block) and returned None.
C8_Witness ==
    /\ last.op = "login_user"
    /\ PyEq(last.results[1], PyTrue)
    /\ last.ret.t = "None"

\* The value an operation returns to report failure.
IsSentinel(op, ret) ==
    CASE op \in {"register_user", "add_expense", "update_expense", "delete_expense",
                 "add_category", "set_user_currency"} -> PyEq(ret, PyFalse)
      [] op \in {"login_user", "get_user_by_id"} -> ret.t = "None"
      [] op \in {"get_expenses", "get_recent_expenses", "get_expenses_by_date_range",
                 "get_expenses_by_category", "search_expenses", "get_categories"}
            -> ret.t = "list" /\ Len(ret.v) = 0
      [] op = "get_expenses_by_category_for_period" -> ret.t = "dict" /\ DOMAIN ret.v = {}
      [] OTHER -> TRUE

\* C9 (as claimed): an operation one of whose requests failed (the generic
\* request returned None) returns its failure sentinel.
C9_FailedRequestGivesSentinel ==
    (\E i \in 1..Len(last.results) : last.results[i].t = "None")
        => IsSentinel(last.op, last.ret)

\* C9 holds of every operation but register_user.
FailedRequestGivesSentinelButRegister ==
    (last.op # "register_user" /\ \E i \in 1..Len(last.results) : last.results[i].t = "None")
        => IsSentinel(last.op, last.ret)

\* The sum of the amounts of a user's stored expenses of one date.
RECURSIVE StoredTotal(_, _, _)
StoredTotal(rows, user_id, day) ==
    IF rows = <<>> THEN 0
    ELSE (IF Head(rows).user_id = user_id /\ Head(rows).date = day
          THEN Head(rows).amount ELSE 0) + StoredTotal(Tail(rows), user_id, day)

\* C10 (as claimed): after successful add_expense and delete_expense calls,
\* get_daily_total(user, D) is the sum of the amounts of the user's stored
\* expenses dated D.
C10_DailyTotalIsStoredSum ==
    (last.op = "get_daily_total" /\ hist.allOk)
        => PyEq(last.ret, PyNum(StoredTotal(expenses, last.args[1], last.args[2])))

\* C10 (amended): get_daily_total(user, D) is that sum whenever its own range
\* request is answered with the list of rows, and 0 otherwise.
C10_DailyTotalIsStoredSumWhenFetched ==
    (last.op = "get_daily_total" /\ hist.allOk)
        => PyEq(last.ret,
                IF last.results[1].t = "list"
                THEN PyNum(StoredTotal(expenses, last.args[1], last.args[2]))
                ELSE PyNum(0))

\* C10 witness: two expenses of one user and day are stored and the total was
\* fetched, after an expense was added and deleted.
C10_Witness ==
    /\ last.op = "get_daily_total"
    /\ hist.allOk
    /\ last.results[1].t = "list"
    /\ Len(last.results[1].v) = 2
    /\ nextId > 3

\* The stored expenses of a user dated from start to end, both included.
InRange(user_id, start_date, end_date) ==
    SelectSeq(expenses, LAMBDA r : r.user_id = user_id /\ start_date <= r.date
                                   /\ r.date <= end_date)

\* A sequence of rows holds exactly the rows of another, each once.
SameRows(a, b) ==
    /\ Len(a) = Len(b)
    /\ \A i \in 1..Len(a) : \E j \in 1..Len(b) : a[i] = b[j]
    /\ \A j \in 1..Len(b) : \E i \in 1..Len(a) : a[i] = b[j]

\* C11: answered with the list of rows, get_expenses_by_date_range(user, start,
\* end) returns exactly the stored expenses of the user dated from start to end,
\* both included (none when start > end), latest date first.
C11_DateRangeInclusiveDescending ==
    (last.op = "get_expenses_by_date_range" /\ last.results[1].t = "list") =>
        /\ last.ret.t = "list"
        /\ SameRows(last.ret.v, InRange(last.args[1], last.args[2], last.args[3]))
        /\ last.args[2] > last.args[3] => last.ret.v = <<>>
        /\ \A i, j \in 1..Len(last.ret.v) : i < j => last.ret.v[i].date >= last.ret.v[j].date

\* C11 witness: a range of one day returned the expense of that day and left
\* out a later expense of the same user.
C11_Witness ==
    /\ last.op = "get_expenses_by_date_range"
    /\ last.results[1].t = "list"
    /\ last.args[2] = last.args[3]
    /\ Len(last.ret.v) = 1
    /\ \E i \in 1..Len(expenses) :
            expenses[i].user_id = last.args[1] /\ expenses[i].date > last.args[3]

\* C11, the order: two expenses stored earliest first came back latest first.
C11_WitnessOrder ==
    /\ last.op = "get_expenses_by_date_range"
    /\ last.ret.t = "list"
    /\ Len(last.ret.v) = 2
    /\ last.ret.v[1].id > last.ret.v[2].id
    /\ last.ret.v[1].date > last.ret.v[2].date

\* What get_expenses_by_date_range returns for a user over the whole calendar,
\* answered with the rows.
WholeWindow(user_id) ==
    get_expenses_by_date_range(
        Result(get_expenses_by_date_range_request(user_id, 1, MaxOrdinal), "ok"))

\* A search with the default arguments, answered with the rows.
DefaultSearch ==
    /\ last.op = "search_expenses"
    /\ last.args[2] = <<>> /\ last.args[3] = "" /\ last.args[4] = 0
    /\ last.args[5] = Infinity
    /\ last.results[1].t = "list"

\* C12 (as claimed): search_expenses with an empty query, an empty category,
\* min_amount 0 and max_amount infinity returns the same expenses in the same
\* order as get_expenses_by_date_range over a window holding every stored date.
C12_DefaultSearchEqualsWholeRange ==
    DefaultSearch => PyEq(last.ret, WholeWindow(last.args[1]))

\* C12 holds while no stored expense of the user has a negative amount.
DefaultSearchEqualsWholeRangeOfNonNegative ==
    (/\ DefaultSearch
     /\ \A i \in 1..Len(expenses) :
            expenses[i].user_id = last.args[1] => expenses[i].amount >= 0)
        => PyEq(last.ret, WholeWindow(last.args[1]))

\* Two characters are the same letter in either case, or the same character.
SameIgnoringCase(a, b) ==
    \/ a = b
    \/ a \in 65..90 /\ b = a + 32
    \/ b \in 65..90 /\ a = b + 32

\* The text contains the query, letter case ignored.
ContainsIgnoringCase(text, query) ==
    \E k \in 0..(Len(text) - Len(query)) :
        \A i \in 1..Len(query) : SameIgnoringCase(text[k + i], query[i])

TextMatches(row, query) ==
    \/ ContainsIgnoringCase(row.description, query)
    \/ ContainsIgnoringCase(row.transaction_id, query)

C13_WitnessTransactionId ==
    /\ last.op = "search_expenses"
    /\ last.args[2] = <<84, 49>>
    /\ last.ret.t = "list"
    /\ Len(last.ret.v) = 1
    /\ last.ret.v[1].transaction_id = T1
    /\ last.ret.v[1].description = <<>>

\* The one request of a total asks for the user's expenses dated from s to e.
QueriesRange(user_id, s, e) ==
    /\ Len(last.reqs) = 1
    /\ last.reqs[1].method = "GET" /\ last.reqs[1].table = "expenses"
    /\ last.reqs[1].conds = <<Cond("user_id", "eq", user_id), Cond("date", "gte", s),
                              Cond("date", "lte", e)>>

\* s is the Monday on or before t, and e the Sunday six days after s.
IsWeekOf(t, s, e) ==
    /\ weekday(s) = 0 /\ weekday(e) = 6
    /\ e = s + 6
    /\ s <= t /\ t <= e

\* C14 (as claimed): for every target date T, get_weekly_total queries the range
\* from the Monday on or before T to the Sunday six days later, T lying within.
C14_WeeklyRangeMondayToSunday ==
    last.op = "get_weekly_total" =>
        \E s \in (last.args[2] - 6)..last.args[2] :
            IsWeekOf(last.args[2], s, s + 6) /\ QueriesRange(last.args[1], s, s + 6)

\* C14 holds of every target date whose week ends within the calendar; for the
\* later ones no request is issued and the total is 0.
WeeklyRangeWithinCalendar ==
    last.op = "get_weekly_total" =>
        IF last.args[2] <= Ordinal(9999, 12, 26)
        THEN \E s \in (last.args[2] - 6)..last.args[2] :
                IsWeekOf(last.args[2], s, s + 6) /\ QueriesRange(last.args[1], s, s + 6)
        ELSE last.reqs = <<>> /\ PyEq(last.ret, PyNum(0))

\* C15 (as claimed): for every target date, get_monthly_total queries the range
\* from day 1 of its month to the last day of that month and year; in December
\* the range ends on December 31 of the year.
C15_MonthlyRangeFirstToLastDay ==
    last.op = "get_monthly_total" =>
        LET year == last.args[2]
            month == last.args[3]
        IN  /\ QueriesRange(last.args[1], Ordinal(year, month, 1),
                            Ordinal(year, month, DaysInMonth(year, month)))
            /\ month = 12 => last.reqs[1].conds[3].val = Ordinal(year, 12, 31)

\* C15 holds of every month but December 9999, for which no request is issued
\* and the total is 0.
MonthlyRangeWithinCalendar ==
    last.op = "get_monthly_total" =>
        LET year == last.args[2]
            month == last.args[3]
        IN  IF year = 9999 /\ month = 12
            THEN last.reqs = <<>> /\ PyEq(last.ret, PyNum(0))
            ELSE QueriesRange(last.args[1], Ordinal(year, month, 1),
                              Ordinal(year, month, DaysInMonth(year, month)))

\* C16: for every username without ":" and every password, ":" in it or not,
\* decrypt_credentials(encrypt_credentials(u, p)) returns (u, p).
C16_DecryptInvertsEncrypt ==
    (obf.pc = "decrypted" /\ \A i \in 1..Len(obf.username) : obf.username[i] # 58) =>
        /\ obf.out.found
        /\ obf.out.username = obf.username
        /\ obf.out.password = obf.password

\* C16 witness: a pair whose password holds ":" and a two-byte character came
\* back as it was.
C16_Witness ==
    /\ obf.pc = "decrypted"
    /\ obf.username = <<97>>
    /\ obf.password = <<58, 233>>
    /\ obf.out = Credentials(<<97>>, <<58, 233>>)

\* C17 (as claimed): every expense stored through the add-expense form has a
\* finite amount that is not negative.
C17_StoredAmountsFiniteNonNegative ==
    \A i \in 1..Len(expenses) : expenses[i].amount \in Nat

\* The part of C17 that holds: no stored amount is infinite or NaN.
StoredAmountsFinite ==
    \A i \in 1..Len(expenses) : expenses[i].amount \in Int

\* C18: a currency change, successful or failed, leaves the stored expenses as
\* they were; the only request of change_currency that writes is a PATCH of the
\* currency field of the user's row.
C18_CurrencyChangeKeepsExpenses ==
    [][app'.handler = "change_currency" =>
        /\ expenses' = expenses
        /\ \A i \in 1..Len(expenses) : expenses'[i].amount = expenses[i].amount
        /\ Len(app'.reqs) >= 1
        /\ app'.reqs[1].method = "PATCH" /\ app'.reqs[1].table = "users"
        /\ app'.reqs[1].conds = <<Cond("id", "eq", app.user_id)>>
        /\ DOMAIN app'.reqs[1].data = {"currency"}
        /\ \A k \in 2..Len(app'.reqs) : app'.reqs[k].method = "GET"]_vars

\* C18 witness: the currency was changed with two expenses stored, and the
\* tables were reloaded.
C18_Witness ==
    /\ app.handler = "change_currency"
    /\ app.currency = "EUR"
    /\ Len(app.reqs) = 3
    /\ Len(expenses) = 2
    /\ Len(app.history) = 2

\* C18, the failed change: the PATCH failed with two expenses stored.
C18_WitnessFailed ==
    /\ app.handler = "change_currency"
    /\ app.message = "Failed to change currency"
    /\ Len(expenses) = 2

\* C20: when the amount text of an accepted form is no number, get_data returns
\* None without raising, the handler issues no request (no POST to expenses)
\* and the stored expenses are as they were.
C20_UnparsedAmountAddsNothing ==
    [][(app'.handler = "add_expense" /\ app'.accepted /\ app'.amount_text \in NotANumber) =>
        /\ app'.data.t = "None"
        /\ ~app'.raised
        /\ app'.reqs = <<>>
        /\ app'.message = "Invalid amount entered"
        /\ expenses' = expenses]_vars

\* C20 witness: the form was accepted with the amount text "abc", one expense
\* being stored.
C20_Witness ==
    /\ app.handler = "add_expense"
    /\ app.accepted
    /\ app.amount_text = <<97, 98, 99>>
    /\ app.message = "Invalid amount entered"
    /\ Len(expenses) = 1


\* The row of user_id in the stored users, or <<>> when there is none.
UserRows(user_id) == SelectSeq(users, LAMBDA r : r.id = user_id)

\* The backend answered the query of get_user_currency with the stored rows.
CurrencyFetched ==
    /\ last.op = "get_user_currency"
    /\ last.results = <<PyList(UserRows(last.args[1]))>>

\* C19: get_user_currency returns "USD" when the row cannot be fetched (failed
\* request, or no such row) and when the fetched row holds no currency value,
\* and the stored code otherwise; it never returns None.
C19_CurrencyDefaultsToUSD ==
    last.op = "get_user_currency" =>
        /\ last.ret.t = "str"
        /\ IF CurrencyFetched /\ UserRows(last.args[1]) # <<>>
              /\ UserRows(last.args[1])[1].currency # Null
           THEN last.ret.v = UserRows(last.args[1])[1].currency
           ELSE last.ret.v = "USD"

\* Apart from a fetched row whose currency is null, C19 holds: the default on
\* every failure and missing row, the stored code for a row that holds one.
CurrencyDefaultsToUSDUnlessNull ==
    (/\ last.op = "get_user_currency"
     /\ ~(CurrencyFetched /\ UserRows(last.args[1]) # <<>>
           /\ UserRows(last.args[1])[1].currency = Null)) =>
        /\ last.ret.t = "str"
        /\ IF CurrencyFetched /\ UserRows(last.args[1]) # <<>>
           THEN last.ret.v = UserRows(last.args[1])[1].currency
           ELSE last.ret.v = "USD"

\* The row whose currency is null was fetched, and None came back.
CurrencyNullReturned ==
    /\ CurrencyFetched
    /\ UserRows(last.args[1]) # <<>>
    /\ UserRows(last.args[1])[1].currency = Null
    /\ last.ret = None

\* A changed currency was read back.
CurrencyReadBack ==
    /\ CurrencyFetched
    /\ UserRows(last.args[1]) # <<>>
    /\ last.ret = PyStr("EUR")


ListQueries ==
    {"get_expenses", "get_recent_expenses", "get_expenses_by_date_range",
     "get_expenses_by_category", "search_expenses"}

\* C27: every list query returns a list, whatever the backend answered, also
\* for a 200/201 whose body is empty or no JSON (the generic request then
\* returned True).
C27_ListQueriesReturnLists ==
    last.op \in ListQueries => last.ret.t = "list"

\* A list query returns a list when the generic request returned a list or None,
\* and search_expenses with a non-empty query returns one for every answer.
ListQueriesReturnListsOfListsAndNone ==
    (/\ last.op \in ListQueries
     /\ \/ last.results[1].t \in {"list", "None"}
        \/ last.op = "search_expenses" /\ last.args[2] # <<>>) => last.ret.t = "list"

\* A list query whose request returned True returned True itself.
ListQueryReturnedTrue ==
    /\ last.op \in ListQueries
    /\ PyEq(last.results[1], PyTrue)
    /\ PyEq(last.ret, PyTrue)


\* The rows the backend returned to the last login_user, when it returned
\* several.
SeveralRowsReturned ==
    /\ last.op = "login_user"
    /\ last.results[1].t = "list"
    /\ Len(last.results[1].v) >= 2

\* C28: when the backend returns several rows for the username, login_user
\* returns the first row if the password verifies against it and None if it
\* does not, whatever the other rows hold.
C28_LoginChecksFirstRowOnly ==
    SeveralRowsReturned =>
        LET first == last.results[1].v[1]
        IN  IF VerifiesAgainst(first, last.args[2])
            THEN last.ret = PyDict(first)
            ELSE last.ret = None

\* C28 witness: two rows of one username, the password verifies against the
\* second only, and login_user returned None.
C28_Witness ==
    /\ SeveralRowsReturned
    /\ ~VerifiesAgainst(last.results[1].v[1], last.args[2])
    /\ VerifiesAgainst(last.results[1].v[2], last.args[2])
    /\ last.ret = None

\* The password verifies against the first of two rows, which is returned.
C28_WitnessFirst ==
    /\ SeveralRowsReturned
    /\ last.results[1].v[1] # last.results[1].v[2]
    /\ last.ret = PyDict(last.results[1].v[1])


\* A step of handle_register: the Register button was pressed.
RegisterPressed == dlg'.register.pressed /\ dlg'.register # dlg.register

\* C24: handle_register shows the message of the first failing check among
\* username non-empty after trimming, username of 3 characters or more,
\* password of 6 or more, password equal to its confirmation, and calls
\* register_user, issuing requests, only when all four pass.
C24_RegisterValidationOrder ==
    [][RegisterPressed =>
        LET r == dlg'.register
            username == Strip(r.username)
            passes == /\ username # <<>>
                      /\ Len(username) >= 3
                      /\ Len(r.password) >= 6
                      /\ r.password = r.confirm
        IN  /\ ~passes =>
                /\ last' = last
                /\ users' = users
                /\ ~r.called
                /\ r.message =
                        IF username = <<>> THEN "Username cannot be empty"
                        ELSE IF Len(username) < 3
                             THEN "Username must be at least 3 characters"
                        ELSE IF Len(r.password) < 6
                             THEN "Password must be at least 6 characters"
                        ELSE "Passwords do not match"
            /\ passes =>
                /\ r.called
                /\ last'.op = "register_user"
                /\ last'.args = <<username, r.password>>
                /\ last'.reqs # <<>>]_vars

\* C24 witness: a short password with a different confirmation was rejected for
\* its length, after a registration that went through.
C24_Witness ==
    /\ dlg.register.pressed
    /\ Strip(dlg.register.username) = Bob
    /\ dlg.register.password = Short
    /\ dlg.register.confirm = Secret1
    /\ dlg.register.message = "Password must be at least 6 characters"
    /\ users # <<>>

\* A username of blanks was rejected as empty; a username of two characters
\* between blanks as too short; a registration was carried out.
C24_WitnessBlank ==
    dlg.register.username = Blanks /\ dlg.register.message = "Username cannot be empty"

C24_WitnessTrimmed ==
    /\ dlg.register.username = Ab
    /\ dlg.register.message = "Username must be at least 3 characters"

C24_WitnessCalled ==
    /\ dlg.register.called
    /\ dlg.register.username = <<32>> \o Bob
    /\ last.op = "register_user"
    /\ last.args[1] = Bob

\* A step of handle_login: the Login button was pressed.
LoginPressed ==
    /\ dlg' # dlg
    /\ dlg'.register = dlg.register
    /\ dlg'.cause # "none"

\* C25: with the trimmed username or the password empty, handle_login issues no
\* request, leaves the dialog not accepted with no current user, and does not
\* write the credential file.
C25_EmptyLoginRejectedLocally ==
    [][(LoginPressed /\ (Strip(dlg.login_username) = <<>> \/ dlg.login_password = <<>>)) =>
        /\ last' = last
        /\ users' = users
        /\ ~dlg'.accepted
        /\ dlg'.current_user = None
        /\ dlg'.file = dlg.file
        /\ dlg'.message = "Please enter username and password"]_vars

\* C25 witness: a registered username with an empty password was rejected.
C25_Witness ==
    /\ dlg.cause = "rejected"
    /\ dlg.login_username = Bob
    /\ dlg.login_password = <<>>
    /\ \E i \in 1..Len(users) : users[i].username = Bob

\* An empty username with a password was rejected, remember-me ticked.
C25_WitnessNoName ==
    /\ dlg.cause = "rejected"
    /\ dlg.login_username = <<>>
    /\ dlg.login_password = Secret1
    /\ dlg.remember


\* handle_login returned after save_credentials, and the credential file holds
\* the token of the username and password that were saved.
TokenSaved ==
    /\ dlg.accepted
    /\ dlg.remember
    /\ dlg.file.exists
    /\ dlg.file.content = encrypt_credentials(Strip(dlg.login_username), dlg.login_password)

\* C26: whenever the credential file holds the token save_credentials wrote,
\* its permissions are owner read/write only, also when write_text succeeded
\* and chmod failed.
C26_SavedFileOwnerOnly == TokenSaved => dlg.file.mode = "0600"

\* The token was written to a new file whose chmod failed: the file keeps the
\* permissions write_text created it with.
SavedFileLeftAsCreated ==
    /\ TokenSaved
    /\ ~dlg.file_before.exists
    /\ dlg.file.mode = "umask"

\* The token was saved and the file restricted to its owner.
SavedFileRestricted == TokenSaved /\ dlg.file.mode = "0600"


\* The DELETE requests on the expenses collection among the requests of the
\* window's last handler.
Deletes(a) ==
    SelectSeq(a.reqs, LAMBDA r : r.method = "DELETE" /\ r.table = "expenses")

\* C21: a handler of the main window sends a DELETE on expenses only after the
\* confirmation prompt of that delete was answered Yes, and for the expense the
\* prompt was about; answered No, no DELETE is sent and the stored expenses and
\* the views stay as they were.
C21_DeleteOnlyAfterYes ==
    [][/\ (app' # app /\ Deletes(app') # <<>>) =>
            /\ app'.handler = "delete_expense"
            /\ app'.reply = "Yes"
            /\ Deletes(app') = <<Logged(delete_expense_request(app'.expense_id))>>
            /\ app'.reqs[1] = Deletes(app')[1]
       /\ (app' # app /\ app'.handler = "delete_expense" /\ app'.reply = "No") =>
            /\ app'.reqs = <<>>
            /\ expenses' = expenses
            /\ app'.dashboard = app.dashboard
            /\ app'.history = app.history
            /\ app'.search = app.search
            /\ app'.chart = app.chart
            /\ app'.totals = app.totals
            /\ app'.shown = app.shown
       /\ expenses' # expenses /\ Len(expenses') < Len(expenses) =>
            app' # app /\ app'.handler = "delete_expense" /\ app'.reply = "Yes"]_vars

\* C21 witness: a delete confirmed with Yes removed the expense, after a prompt
\* answered No had left it stored.
C21_Witness ==
    /\ app.handler = "delete_expense"
    /\ app.reply = "Yes"
    /\ app.message = "Expense deleted!"
    /\ \A i \in 1..Len(expenses) : expenses[i].id # app.expense_id

C21_WitnessNo ==
    /\ app.handler = "delete_expense"
    /\ app.reply = "No"
    /\ \E i \in 1..Len(expenses) : expenses[i].id = app.expense_id
    /\ app.history # <<>>


\* The answers for which the generic request returns None: a status other than
\* 200 and 201, or no response.
FailedAnswers == {"no_content", "error", "exception"}

\* C30: when set_user_currency fails, change_currency keeps the window's
\* currency code and symbol and reloads no view: the PATCH is the handler's
\* only request.
C30_FailedCurrencyChangeKeepsWindow ==
    [][(/\ app' # app
        /\ app'.handler = "change_currency"
        /\ app'.answers[1] \in FailedAnswers) =>
            /\ app'.currency = app.currency
            /\ app'.symbol = app.symbol
            /\ Len(app'.reqs) = 1
            /\ app'.totals = app.totals
            /\ app'.dashboard = app.dashboard
            /\ app'.history = app.history
            /\ app'.search = app.search
            /\ app'.chart = app.chart
            /\ app'.shown = app.shown
            /\ app'.message = "Failed to change currency"]_vars

\* C30 witness: a currency change failed on an error status with an expense
\* shown, the window still on USD.
C30_Witness ==
    /\ app.handler = "change_currency"
    /\ app.answers = <<"error">>
    /\ app.currency = "USD"
    /\ app.symbol = Dollar
    /\ app.dashboard # <<>>

\* The PATCH was carried out and answered 204: the stored currency changed, the
\* window's did not.
C30_WitnessNoContent ==
    /\ app.handler = "change_currency"
    /\ app.answers = <<"no_content">>
    /\ app.currency = "USD"
    /\ users[1].currency = "EUR"


\* What a query of the stored expenses rows answers, the backend answering.
(* The main window opened again and again by the two users. *)
AllOk == [i \in 1..Len(default_categories) |-> "ok"]
AllFail == [i \in 1..Len(default_categories) |-> "error"]
FirstFails == [AllOk EXCEPT ![1] = "exception"]
LastFails == [AllOk EXCEPT ![Len(default_categories)] = "error"]
InsertOutcomes == {AllOk, AllFail, FirstFails, LastFails}

NextStart ==
    \E u \in UserIds, o \in ShellOutcomes, og \in ShellOutcomes, oi \in InsertOutcomes :
            StartUp(u, o, og, oi, o)

SpecStart == InitExp /\ [][NextStart]_vars

Fresh(rows, req) == SelectedFrom(rows, req)

FreshTotal(rows, user_id, range) ==
    SumSeq([i \in 1..Len(Fresh(rows, get_expenses_by_date_range_request(user_id, range.start, range.end))) |->
                Fresh(rows, get_expenses_by_date_range_request(user_id, range.start, range.end))[i].amount])

\* The totals of the dashboard for a window opened on the day Today.
FreshTotals(rows, user_id) ==
    [today |-> FreshTotal(rows, user_id, Range(PyNum(Today), PyNum(Today))),
     week |-> FreshTotal(rows, user_id, weekly_range(Today)),
     month |-> FreshTotal(rows, user_id, monthly_range(2024, 1))]

FreshChart(rows, a) ==
    IF a.chart.type = "By Category"
    THEN category_totals(PyList(Fresh(rows, get_expenses_by_date_range_request(
                                            a.user_id, Today - ChartPeriod, Today)))).v
    ELSE create_daily_chart(PyList(Fresh(rows, get_expenses_request(a.user_id, 1000)))).v

FreshSearch(rows, a) ==
    search_expenses(PyList(Fresh(rows, search_expenses_request(
                        a.user_id, a.searched.category, a.searched.min_amount,
                        a.searched.max_amount))), a.searched.query).v

\* The window a after a mutation through it that succeeded, every request of
\* the handler answered with the rows asked for.
MutatedThrough(a) ==
    /\ \/ a.handler = "add_expense" /\ a.message = "Expense added successfully!"
       \/ a.handler = "delete_expense" /\ a.message = "Expense deleted!"
       \/ a.handler = "change_currency" /\ a.message = ""
    /\ \A i \in 1..Len(a.answers) : a.answers[i] = "ok"

\* The two tables of load_expenses show the stored rows with the window's symbol.
TablesFresh(rows, a) ==
    /\ a.dashboard = Fresh(rows, refresh_dashboard_request(a.user_id))
    /\ a.history = Fresh(rows, refresh_history_request(a.user_id, a.from_date, a.to_date))
    /\ a.shown.dashboard = a.symbol
    /\ a.shown.history = a.symbol

\* The totals, the chart and the search results do.
OtherViewsFresh(rows, a) ==
    /\ a.totals = FreshTotals(rows, a.user_id)
    /\ a.shown.totals = a.symbol
    /\ a.chart.type # "none" /\ a.chart.bars = FreshChart(rows, a)
    /\ a.searched.pressed => (a.search = FreshSearch(rows, a) /\ a.shown.search = a.symbol)

\* C22: after every successful add, delete and currency change made through
\* the window, the totals, the recent-expenses table, the history table, the
\* chart and the search results show what a query of the backend returns now,
\* with the current currency symbol.
C22_MutationReloadsEveryView ==
    [][(app' # app /\ MutatedThrough(app')) =>
            (TablesFresh(expenses', app') /\ OtherViewsFresh(expenses', app'))]_vars

\* The two tables are reloaded after every such mutation.
MutationReloadsTables ==
    [][(app' # app /\ MutatedThrough(app')) => TablesFresh(expenses', app')]_vars

\* An expense was added and the tables reloaded, the week's total still 0.
TotalsLeftBehind ==
    /\ MutatedThrough(app)
    /\ TablesFresh(expenses, app)
    /\ app.dashboard # <<>>
    /\ app.totals.week = 0
    /\ FreshTotals(expenses, app.user_id).week = 5

\* The currency was changed with search results shown: they keep the old symbol.
SearchSymbolLeftBehind ==
    /\ MutatedThrough(app)
    /\ app.handler = "change_currency"
    /\ app.searched.pressed
    /\ app.search # <<>>
    /\ app.shown.search = Dollar
    /\ app.symbol # Dollar


\* The stored expenses of the window's user.
OwnRows(rows, a) == SelectSeq(rows, LAMBDA r : r.user_id = a.user_id)

OwnOnly(table, a) == \A i \in 1..Len(table) : table[i].user_id = a.user_id

\* C29: every expense row in the tables of the window belongs to its user, the
\* chart is drawn from that user's rows alone, every query of expenses the
\* window sends is filtered by that user's id and every expense it inserts
\* carries it.
C29_ViewsShowOwnExpensesOnly ==
    [][/\ OwnOnly(app'.dashboard, app')
       /\ OwnOnly(app'.history, app')
       /\ OwnOnly(app'.search, app')
       /\ (app' # app /\ app'.handler = "update_chart" /\ ~app'.raised) =>
                app'.chart.bars = FreshChart(OwnRows(expenses', app'), app')
       /\ \A i \in 1..Len(app'.reqs) :
            LET r == app'.reqs[i]
            IN  /\ (r.table = "expenses" /\ r.method = "GET") =>
                        \E k \in 1..Len(r.conds) :
                            r.conds[k] = Cond("user_id", "eq", app'.user_id)
                /\ (r.table = "expenses" /\ r.method = "POST") =>
                        r.data.user_id = app'.user_id]_vars

\* C29 witness: with an expense of user 2 stored, the tables, the search
\* results and the chart of user 1's window are filled.
C29_Witness ==
    /\ \E i \in 1..Len(expenses) : expenses[i].user_id # app.user_id
    /\ Len(OwnRows(expenses, app)) > 0
    /\ app.dashboard = OwnRows(expenses, app)
    /\ app.history # <<>>
    /\ app.search # <<>>
    /\ DOMAIN app.chart.bars # {}


\* The names of the categories stored for a user, in the order stored.
StoredNames(rows, user_id) ==
    LET own == SelectSeq(rows, LAMBDA r : r.user_id = user_id)
    IN  [i \in 1..Len(own) |-> own[i].name]

NoDuplicates(names) ==
    \A i \in 1..Len(names), j \in 1..Len(names) : names[i] = names[j] => i = j

\* C23: however often the window is opened, and whatever the backend answers,
\* defaults are inserted only for a user with no stored category, so no user
\* ever has a default category name stored twice.
C23_DefaultsInsertedOnce ==
    [][/\ categories' # categories =>
            StoredNames(categories, app'.user_id) = <<>>
       /\ \A u \in UserIds : NoDuplicates(StoredNames(categories', u))]_vars

\* What holds of the code: defaults are inserted only when the fetch of the
\* user's categories came back empty or failed, and a start whose fetch was
\* answered with the stored rows leaves a user who has categories as they are.
DefaultsInsertedWhenNoneFetched ==
    [][app'.handler = "__init__" =>
        /\ categories' # categories =>
                \/ StoredNames(categories, app'.user_id) = <<>>
                \/ app'.answers[2] # "ok"
        /\ (app'.answers[2] = "ok" /\ StoredNames(categories, app'.user_id) # <<>>) =>
                /\ categories' = categories
                /\ app'.categories = StoredNames(categories, app'.user_id)]_vars

\* A user's defaults stored twice after a start whose category fetch failed.
DefaultsStoredTwice ==
    /\ app.handler = "__init__"
    /\ app.answers[2] # "ok"
    /\ ~NoDuplicates(StoredNames(categories, app.user_id))

\* All seven defaults stored once for the user of the window just opened.
DefaultsStoredOnce ==
    /\ app.handler = "__init__"
    /\ StoredNames(categories, app.user_id) = default_categories


====
